---- MODULE Spec2Model ----
(***************************************************************************)
(* Model of the hybrid search and reranking engine                         *)
(* (src/src/enhanced-search.ts, class EnhancedSearchEngine) together with  *)
(* the rerank entry point of src/src/voyage-ai.ts.                         *)
(*                                                                         *)
(* Conventions                                                             *)
(*  - Text (query, content, path, title) is a sequence of one-character    *)
(*    strings, so that split, prefix and substring matching are computed.  *)
(*  - An optional field (file?, finalScore?, rerankScore?, modified?,      *)
(*    tags?) is a sequence of length 0 (absent) or 1 (present).            *)
(*  - Scores are integers in units of 1/1000, so 0.9 is 900 and the        *)
(*    weights 0.3 / 0.5 / 0.7 are exact on the multiples of 10 used here.  *)
(*  - Time is an integer number of milliseconds (Date.now()).              *)
(***************************************************************************)
EXTENDS Integers, Sequences, FiniteSets, TLC

\* ------------------------------------------------------------------------
\* Generic helpers
\* ------------------------------------------------------------------------

Range(s) == { s[i] : i \in 1..Len(s) }

Min(a, b) == IF a <= b THEN a ELSE b

Max(a, b) == IF a >= b THEN a ELSE b

\* Array.prototype.slice(0, n) for n >= 0
Take(s, n) == SubSeq(s, 1, Min(Len(s), n))

\* Array.prototype.slice(0, n), a negative n counting from the end
JsSlice0(s, n) == IF n >= 0 THEN Take(s, n) ELSE SubSeq(s, 1, Max(0, Len(s) + n))

\* Array.prototype.filter
RECURSIVE SelectSeqBy(_, _)
SelectSeqBy(s, keep) ==
  IF s = <<>> THEN <<>>
  ELSE (IF Head(s) \in keep THEN <<Head(s)>> ELSE <<>>) \o SelectSeqBy(Tail(s), keep)

\* String.prototype.startsWith
StartsWith(text, prefix) ==
  /\ Len(prefix) <= Len(text)
  /\ SubSeq(text, 1, Len(prefix)) = prefix

\* x * (w / 10) in score units; w is a weight in tenths
Weighted(x, w) == (x * w) \div 10

\* ------------------------------------------------------------------------
\* SearchResult (enhanced-search.ts:6-24) and its ordering key
\* ------------------------------------------------------------------------

\* a.finalScore || a.score : an absent or zero finalScore falls back to score
OrderKey(r) ==
  IF r.finalScore # <<>> /\ r.finalScore[1] # 0 THEN r.finalScore[1] ELSE r.score

\* String.prototype.localeCompare on the titles of the model: titles are
\* compared character by character with the collation a < b < c < ...
Collation == <<" ", ".", "/", "0", "1", "2", "4", "a", "b", "c", "d", "e", "i", "m", "n", "o", "p", "t", "v", "x", "y", "z">>

CharRank(ch) == CHOOSE i \in 1..Len(Collation) : Collation[i] = ch

RECURSIVE localeCompare(_, _)
localeCompare(a, b) ==
  IF a = <<>> /\ b = <<>> THEN 0
  ELSE IF a = <<>> THEN -1
  ELSE IF b = <<>> THEN 1
  ELSE IF CharRank(Head(a)) < CharRank(Head(b)) THEN -1
  ELSE IF CharRank(Head(a)) > CharRank(Head(b)) THEN 1
  ELSE localeCompare(Tail(a), Tail(b))

\* ------------------------------------------------------------------------
\* The comparators handed to Array.prototype.sort in the source.  `how` names
\* the call site; for sortResults it carries the options' sortBy/sortOrder.
\* ------------------------------------------------------------------------

\* enhanced-search.ts:394-415, the comparator of sortResults
SortComparison(sortBy, a, b) ==
  CASE sortBy = "relevance" -> OrderKey(b) - OrderKey(a)
    [] sortBy = "date" ->
         (IF b.modified = <<>> THEN 0 ELSE b.modified[1])
         - (IF a.modified = <<>> THEN 0 ELSE a.modified[1])
    [] sortBy = "title" -> localeCompare(a.title, b.title)
    [] sortBy = "size" -> b.wordCount - a.wordCount
    [] OTHER -> 0

Compare(how, a, b) ==
  CASE how.site = "keywordSearch" -> b.score - a.score
    [] how.site = "orderKey" -> OrderKey(b) - OrderKey(a)
    [] how.site = "getSavedSearches" -> b.lastUsed - a.lastUsed
    [] how.site = "topQueries" -> b.count - a.count
    [] how.site = "addToBatch" -> b.priority - a.priority
    [] how.site = "sortResults" ->
         IF how.sortOrder = "desc"
         THEN SortComparison(how.sortBy, a, b)
         ELSE 0 - SortComparison(how.sortBy, a, b)

\* Array.prototype.sort(compare): a stable sort.  InsertBy places x after
\* every element e already placed with compare(e, x) <= 0.
RECURSIVE InsertBy(_, _, _)
InsertBy(sorted, x, how) ==
  IF sorted = <<>> THEN <<x>>
  ELSE IF Compare(how, Head(sorted), x) <= 0
       THEN <<Head(sorted)>> \o InsertBy(Tail(sorted), x, how)
       ELSE <<x>> \o sorted

RECURSIVE SortFrom(_, _, _)
SortFrom(sorted, rest, how) ==
  IF rest = <<>> THEN sorted
  ELSE SortFrom(InsertBy(sorted, Head(rest), how), Tail(rest), how)

StableSort(s, how) == SortFrom(<<>>, s, how)

\* ------------------------------------------------------------------------
\* sortResults (enhanced-search.ts:391-418): sorts a copy of the list
\* ------------------------------------------------------------------------

sortResults(results, options) ==
  StableSort(results, [site |-> "sortResults", sortBy |-> options.sortBy,
                       sortOrder |-> options.sortOrder])

\* ------------------------------------------------------------------------
\* applyFilters (enhanced-search.ts:352-389), one predicate per filter
\* ------------------------------------------------------------------------

\* passesFileTypes that excludes a result without a file
passesFileTypesStrict(result, options) ==
  \/ Len(options.fileTypes) = 0
  \/ /\ result.file # <<>>
     /\ result.file[1].extension \in Range(options.fileTypes)

\* lines 356-361
passesFileTypes(result, options) ==
  \/ Len(options.fileTypes) = 0
  \/ result.file = <<>>
  \/ result.file[1].extension \in Range(options.fileTypes)

\* lines 364-370
passesDateRange(result, options) ==
  \/ options.dateRange = <<>>
  \/ result.modified = <<>>
  \/ /\ result.modified[1] >= options.dateRange[1].from
     /\ result.modified[1] <= options.dateRange[1].to

\* lines 373-378
passesTags(result, options) ==
  \/ options.tags = <<>>
  \/ Len(options.tags[1]) = 0
  \/ /\ result.tags # <<>>
     /\ \E tag \in Range(options.tags[1]) : tag \in Range(result.tags[1])

\* lines 381-386
passesFolders(result, options) ==
  \/ options.folders = <<>>
  \/ Len(options.folders[1]) = 0
  \/ /\ result.path # <<>>
     /\ \E folder \in Range(options.folders[1]) : StartsWith(result.path, folder)

applyFilters(results, options) ==
  LET byType   == SelectSeqBy(results,  { r \in Range(results)  : passesFileTypes(r, options) })
      byDate   == SelectSeqBy(byType,   { r \in Range(byType)   : passesDateRange(r, options) })
      byTags   == SelectSeqBy(byDate,   { r \in Range(byDate)   : passesTags(r, options) })
      byFolder == SelectSeqBy(byTags,   { r \in Range(byTags)   : passesFolders(r, options) })
  IN  byFolder

\* ------------------------------------------------------------------------
\* hybridSearch, the merge of the two result lists
\* (enhanced-search.ts:209-238).  combinedResults is a Map keyed by id; the
\* model keeps it as a list in insertion order, a set() on an existing key
\* replacing the value in place.
\* ------------------------------------------------------------------------

HasId(list, id) == \E i \in 1..Len(list) : list[i].id = id

MapSet(list, r) ==
  IF HasId(list, r.id)
  THEN [i \in 1..Len(list) |-> IF list[i].id = r.id THEN r ELSE list[i]]
  ELSE Append(list, r)

\* lines 213-218
RECURSIVE addSemantic(_, _)
addSemantic(combined, semanticResults) ==
  IF semanticResults = <<>> THEN combined
  ELSE LET result == Head(semanticResults)
       IN  addSemantic(
             MapSet(combined, [result EXCEPT !.finalScore = <<Weighted(result.score, 7)>>]),
             Tail(semanticResults))

\* lines 221-235
RECURSIVE addKeyword(_, _)
addKeyword(combined, keywordResults) ==
  IF keywordResults = <<>> THEN combined
  ELSE LET result == Head(keywordResults)
           existing == CHOOSE e \in Range(combined) : e.id = result.id
       IN  addKeyword(
             IF HasId(combined, result.id)
             THEN MapSet(combined,
                    [existing EXCEPT !.finalScore =
                       <<OrderKey(existing) + Weighted(result.score, 3)>>])
             ELSE MapSet(combined,
                    [result EXCEPT !.finalScore = <<Weighted(result.score, 3)>>]),
             Tail(keywordResults))

\* hybridSearch with the two weights exchanged
hybridSearchSwapped(semanticResults, keywordResults) ==
  StableSort(
    [i \in 1..Len(addKeyword(addSemantic(<<>>, semanticResults), keywordResults)) |->
       LET r == addKeyword(addSemantic(<<>>, semanticResults), keywordResults)[i]
           sem == { x \in Range(semanticResults) : x.id = r.id }
           key == { x \in Range(keywordResults) : x.id = r.id }
           semScore == IF sem = {} THEN 0 ELSE (CHOOSE x \in sem : TRUE).score
           keyScore == IF key = {} THEN 0 ELSE (CHOOSE x \in key : TRUE).score
       IN  [r EXCEPT !.finalScore = <<Weighted(semScore, 3) + Weighted(keyScore, 7)>>]],
    [site |-> "orderKey"])

hybridSearch(semanticResults, keywordResults) ==
  StableSort(addKeyword(addSemantic(<<>>, semanticResults), keywordResults),
             [site |-> "orderKey"])

\* ------------------------------------------------------------------------
\* rerankResults (enhanced-search.ts:276-307) on the outcome of
\* voyageAI.rerankOnly (voyage-ai.ts:369-383).  reply.kind is "data" (the
\* provider answered with reply.data, a list of {index, relevance_score},
\* index 0-based), "null" (rerankOnly returned null) or "throw".
\* ------------------------------------------------------------------------

\* rerankSurvivors with a strict comparison
rerankSurvivorsStrict(data, options) ==
  SelectSeqBy(data, { item \in Range(data) : item.relevance_score > options.rerankThreshold })

\* line 292: .filter(item => item.relevance_score >= options.rerankThreshold)
rerankSurvivors(data, options) ==
  SelectSeqBy(data, { item \in Range(data) : item.relevance_score >= options.rerankThreshold })

\* results[item.index] is undefined, and reading .score of it throws
rerankIndexFault(results, items) ==
  \E i \in 1..Len(items) : items[i].index < 0 \/ items[i].index >= Len(results)

\* lines 293-300
rerankBlend(originalResult, item) ==
  [originalResult EXCEPT
     !.rerankScore = <<item.relevance_score>>,
     !.finalScore  = <<Weighted(originalResult.score, 3) + Weighted(item.relevance_score, 7)>>]

\* rerankResults whose catch block returns an empty list
rerankResultsDropsOnError(results, options, ready, reply) ==
  IF ~ready \/ Len(results) = 0 THEN results
  ELSE IF reply.kind = "throw" THEN <<>>
  ELSE IF reply.kind = "null" THEN results
  ELSE LET items == rerankSurvivors(reply.data, options)
       IN  IF rerankIndexFault(results, items) THEN <<>>
           ELSE StableSort([i \in 1..Len(items) |->
                              rerankBlend(results[items[i].index + 1], items[i])],
                           [site |-> "orderKey"])

rerankResults(results, options, ready, reply) ==
  IF ~ready \/ Len(results) = 0 THEN results
  ELSE IF reply.kind = "throw" THEN results
  ELSE IF reply.kind = "null" THEN results
  ELSE LET items == rerankSurvivors(reply.data, options)
       IN  IF rerankIndexFault(results, items) THEN results
           ELSE StableSort([i \in 1..Len(items) |->
                              rerankBlend(results[items[i].index + 1], items[i])],
                           [site |-> "orderKey"])

\* ------------------------------------------------------------------------
\* Text helpers of the lexical engine
\* ------------------------------------------------------------------------

IsSpace(ch) == ch = " "

\* String.prototype.toLowerCase on the alphabet of the model
LowerChar(ch) ==
  CASE ch = "I" -> "i"
    [] ch = "P" -> "p"
    [] ch = "T" -> "t"
    [] OTHER -> ch

toLowerCase(text) == [i \in 1..Len(text) |-> LowerChar(text[i])]

\* String.prototype.split(/\s+/): the pieces between maximal runs of
\* whitespace; a leading or trailing run leaves an empty piece, "" gives [""].
RECURSIVE SplitFrom(_, _, _, _)
SplitFrom(text, i, cur, pieces) ==
  IF i > Len(text) THEN Append(pieces, cur)
  ELSE IF IsSpace(text[i])
       THEN IF i > 1 /\ IsSpace(text[i - 1])
            THEN SplitFrom(text, i + 1, cur, pieces)
            ELSE SplitFrom(text, i + 1, <<>>, Append(pieces, cur))
       ELSE SplitFrom(text, i + 1, Append(cur, text[i]), pieces)

SplitWhitespace(text) == SplitFrom(text, 1, <<>>, <<>>)

\* (contentLower.match(new RegExp(word, 'g')) || []).length for a word made
\* of literal characters: the non-overlapping occurrences, left to right;
\* the empty pattern matches at every position, the end included.
RECURSIVE CountFrom(_, _, _)
CountFrom(content, word, i) ==
  IF i + Len(word) - 1 > Len(content) THEN 0
  ELSE IF SubSeq(content, i, i + Len(word) - 1) = word
       THEN 1 + CountFrom(content, word, i + Len(word))
       ELSE CountFrom(content, word, i + 1)

CountMatches(content, word) ==
  IF word = <<>> THEN Len(content) + 1 ELSE CountFrom(content, word, 1)

\* String.prototype.trim
RECURSIVE TrimLeft(_)
TrimLeft(text) ==
  IF text # <<>> /\ IsSpace(Head(text)) THEN TrimLeft(Tail(text)) ELSE text

RECURSIVE TrimRight(_)
TrimRight(text) ==
  IF text # <<>> /\ IsSpace(text[Len(text)])
  THEN TrimRight(SubSeq(text, 1, Len(text) - 1)) ELSE text

Trim(text) == TrimRight(TrimLeft(text))

\* extractTitle (enhanced-search.ts:436-443) for a node text of one line:
\* a heading loses its leading '#'s and the whitespace after them, any other
\* text is cut to 50 characters, trimmed and followed by '...'.
RECURSIVE StripHashes(_)
StripHashes(text) ==
  IF text # <<>> /\ Head(text) = "#" THEN StripHashes(Tail(text)) ELSE text

extractTitle(text) ==
  IF text # <<>> /\ Head(text) = "#"
  THEN TrimLeft(StripHashes(text))
  ELSE Trim(SubSeq(text, 1, Min(Len(text), 50))) \o <<".", ".", ".">>

\* ------------------------------------------------------------------------
\* The collaborators' data: the vault's markdown files and the vector index
\* ------------------------------------------------------------------------

Q_pay == <<"p", "a", "y">>

Q_inv_pay == <<"i", "n", "v", " ", "p", "a", "y">>

Q_tax == <<"t", "a", "x">>

\* vault.getMarkdownFiles(): path, basename, extension, stat.mtime, content
VaultFiles ==
  << [path |-> <<"a", "/", "x", ".", "m", "d">>, basename |-> <<"x">>,
      extension |-> "md", mtime |-> 10,
      content |-> <<"I", "n", "v", " ", "4", "2", " ", "p", "a", "y">>],
     [path |-> <<"a", "/", "y", ".", "m", "d">>, basename |-> <<"y">>,
      extension |-> "md", mtime |-> 20,
      content |-> <<"P", "a", "y", " ", "p", "a", "y">>],
     [path |-> <<"b", "/", "x", ".", "m", "d">>, basename |-> <<"x">>,
      extension |-> "md", mtime |-> 30,
      content |-> <<"T", "a", "x", " ", "p", "a", "y">>] >>

\* ragIntegrator.searchSimilar(embedding(query), limit) before the limit is
\* applied: the index's neighbours, nearest first
Neighbours(query) ==
  CASE query = Q_pay ->
         << [text |-> <<"p", "a", "y", " ", "d", "a", "y">>, score |-> 900],
            [text |-> <<"t", "a", "x">>, score |-> 400],
            [text |-> <<"#", " ", "x">>, score |-> 200] >>
    [] query = Q_inv_pay ->
         << [text |-> <<"i", "n", "v">>, score |-> 800],
            [text |-> <<"p", "a", "y", " ", "d", "a", "y">>, score |-> 600] >>
    [] OTHER -> << [text |-> <<"t", "a", "x">>, score |-> 700] >>

\* ------------------------------------------------------------------------
\* keywordSearch (enhanced-search.ts:154-201).  unreadable is the set of
\* positions in VaultFiles whose vault.read rejects during this call.
\* ------------------------------------------------------------------------

\* line 157
queryWords(options) == SplitWhitespace(toLowerCase(options.query))

\* lines 164-175: the sum of the per-word match counts
RECURSIVE matchSum(_, _)
matchSum(contentLower, words) ==
  IF words = <<>> THEN 0
  ELSE CountMatches(contentLower, Head(words)) + matchSum(contentLower, Tail(words))

\* lines 178-193; score is matches / queryWords.length in units of 1/1000
keywordResult(file, options) ==
  [id |-> <<"keyword", file.path>>,
   title |-> file.basename,
   file |-> <<[path |-> file.path, extension |-> file.extension]>>,
   path |-> file.path,
   score |-> (matchSum(toLowerCase(file.content), queryWords(options)) * 1000)
               \div Len(queryWords(options)),
   rerankScore |-> <<>>,
   finalScore |-> <<>>,
   modified |-> <<file.mtime>>,
   tags |-> <<>>,
   wordCount |-> Len(SplitWhitespace(file.content))]

RECURSIVE keywordScan(_, _, _)
keywordScan(i, options, unreadable) ==
  IF i > Len(VaultFiles) THEN <<>>
  ELSE (IF i \notin unreadable
           /\ matchSum(toLowerCase(VaultFiles[i].content), queryWords(options)) > 0
        THEN <<keywordResult(VaultFiles[i], options)>>
        ELSE <<>>) \o keywordScan(i + 1, options, unreadable)

\* keywordSearch that gives up at the first file it cannot read
keywordSearchStopsAtFailure(options, unreadable) ==
  LET upTo == IF unreadable = {} THEN Len(VaultFiles)
              ELSE (CHOOSE i \in unreadable : \A j \in unreadable : i <= j) - 1
      scanned == keywordScan(1, options, upTo + 1 .. Len(VaultFiles))
  IN  StableSort(scanned, [site |-> "keywordSearch"])

keywordSearch(options, unreadable) ==
  StableSort(keywordScan(1, options, unreadable), [site |-> "keywordSearch"])

\* ------------------------------------------------------------------------
\* semanticSearch (enhanced-search.ts:133-152).  The outcome is
\* [kind |-> "throw"] or [kind |-> "ok", results |-> ...]; embedThrows says
\* that embedQuery rejects during this call.
\* ------------------------------------------------------------------------

\* lines 141-151, index 0-based
semanticResult(node, index) ==
  [id |-> <<"semantic", index>>,
   title |-> extractTitle(node.text),
   file |-> <<>>,
   path |-> <<>>,
   score |-> node.score,
   rerankScore |-> <<>>,
   finalScore |-> <<>>,
   modified |-> <<>>,
   tags |-> <<>>,
   wordCount |-> 0]

\* semanticSearch that finds nothing, instead of failing, without a provider
semanticSearchEmptyWithoutProvider(options, embeddings, embedThrows) ==
  IF ~embeddings THEN [kind |-> "ok", results |-> <<>>]
  ELSE IF embedThrows THEN [kind |-> "throw", results |-> <<>>]
  ELSE LET ragResults == Take(Neighbours(options.query), options.maxResults * 2)
       IN  [kind |-> "ok",
            results |-> [i \in 1..Len(ragResults) |-> semanticResult(ragResults[i], i - 1)]]

semanticSearch(options, embeddings, embedThrows) ==
  IF ~embeddings \/ embedThrows THEN [kind |-> "throw", results |-> <<>>]
  ELSE LET ragResults == Take(Neighbours(options.query), options.maxResults * 2)
       IN  [kind |-> "ok",
            results |-> [i \in 1..Len(ragResults) |-> semanticResult(ragResults[i], i - 1)]]

\* lines 204-207: the semantic failure is caught, the lexical list is awaited
hybridOf(options, embeddings, embedThrows, unreadable) ==
  LET sem == semanticSearch(options, embeddings, embedThrows)
  IN  hybridSearch(IF sem.kind = "ok" THEN sem.results ELSE <<>>,
                   keywordSearch(options, unreadable))

\* ------------------------------------------------------------------------
\* deduplicateResults (enhanced-search.ts:420-433): seen is a Map keyed by
\* file path or title, kept here as a list in insertion order
\* ------------------------------------------------------------------------

\* line 424: result.file?.path || result.title
dedupKey(result) ==
  IF result.file # <<>> /\ result.file[1].path # <<>> THEN result.file[1].path
  ELSE result.title

RECURSIVE dedupInto(_, _)
dedupInto(seen, results) ==
  IF results = <<>> THEN seen
  ELSE LET result == Head(results)
           hit == { i \in 1..Len(seen) : dedupKey(seen[i]) = dedupKey(result) }
           at == CHOOSE i \in hit : TRUE
       IN  dedupInto(
             IF hit = {} THEN Append(seen, result)
             ELSE IF OrderKey(result) > OrderKey(seen[at])
                  THEN [seen EXCEPT ![at] = result]
                  ELSE seen,
             Tail(results))

\* deduplicateResults that keeps the first result of every key
deduplicateResultsKeepsFirst(results) ==
  LET first == { i \in 1..Len(results) :
                   \A j \in 1..(i - 1) : dedupKey(results[j]) # dedupKey(results[i]) }
      nth(k) == CHOOSE i \in first : Cardinality({ j \in first : j < i }) = k - 1
  IN  [k \in 1..Cardinality(first) |-> results[nth(k)]]

deduplicateResults(results) == dedupInto(<<>>, results)

\* ------------------------------------------------------------------------
\* analyzeResultsWithAI (enhanced-search.ts:309-350).  replies[i] is the
\* outcome of generateText for results[i]: [kind |-> "throw"], or
\* [kind |-> "text", value |-> v] where v is parseFloat of the reply in
\* units of 1/1000, or [kind |-> "text", value |-> <<>>] for a NaN.
\* ------------------------------------------------------------------------

\* lines 332-337: parseFloat(...) || result.score, a NaN or a 0 falls back
analyzeOne(result, reply) ==
  IF reply.kind = "throw" THEN result
  ELSE LET aiScore == IF reply.value = <<>> \/ reply.value = <<0>>
                      THEN result.score ELSE reply.value[1]
       IN  [result EXCEPT !.finalScore =
              <<Weighted(result.score, 5) + Weighted(aiScore, 5)>>]

analyzeResultsWithAI(results, vercelReady, replies) ==
  IF ~vercelReady \/ Len(results) = 0 THEN results
  ELSE StableSort([i \in 1..Len(results) |-> analyzeOne(results[i], replies[i])],
                  [site |-> "orderKey"])

\* ------------------------------------------------------------------------
\* aiEnhancedSearch (enhanced-search.ts:241-274) and the strategy dispatch of
\* search (lines 88-103).  env describes what the collaborators do during
\* one call:
\*   vaultThrows  getMarkdownFiles rejects (the lexical search fails)
\*   unreadable   positions of VaultFiles whose read rejects
\*   embedThrows  embedQuery rejects
\*   genThrows    generateQuestions rejects
\*   expansions   the queries generateQuestions returns (at most 3)
\*   aiReplies    the generateText outcomes, by position of the result
\* A strategy outcome is [kind |-> "ok", results |-> ...] or
\* [kind |-> "throw", results |-> <<>>].
\* ------------------------------------------------------------------------

Ok(results) == [kind |-> "ok", results |-> results]

Throw == [kind |-> "throw", results |-> <<>>]

keywordOutcome(options, env) ==
  IF env.vaultThrows THEN Throw ELSE Ok(keywordSearch(options, env.unreadable))

\* hybridOutcome that treats a failed lexical search as an empty one
hybridOutcomeLexicalOptional(options, embeddings, env) ==
  LET sem == semanticSearch(options, embeddings, env.embedThrows)
  IN  Ok(hybridSearch(IF sem.kind = "ok" THEN sem.results ELSE <<>>,
                      IF env.vaultThrows THEN <<>>
                      ELSE keywordSearch(options, env.unreadable)))

\* lines 204-207: Promise.all rejects when keywordSearch rejects
hybridOutcome(options, embeddings, env) ==
  IF env.vaultThrows THEN Throw
  ELSE Ok(hybridOf(options, embeddings, env.embedThrows, env.unreadable))

\* lines 255-261: one hybrid search per query, results concatenated
RECURSIVE hybridPasses(_, _, _, _)
hybridPasses(queries, options, embeddings, env) ==
  IF queries = <<>> THEN <<>>
  ELSE hybridOf([options EXCEPT !.query = Head(queries)], embeddings,
                env.embedThrows, env.unreadable)
       \o hybridPasses(Tail(queries), options, embeddings, env)

\* aiEnhancedSearch without the readiness check of lines 242-244
aiEnhancedSearchAlwaysExpands(options, embeddings, vercelReady, env) ==
  IF env.genThrows \/ env.vaultThrows THEN hybridOutcome(options, embeddings, env)
  ELSE LET allResults == hybridPasses(<<options.query>> \o Take(env.expansions, 3),
                                      options, embeddings, env)
           uniqueResults == deduplicateResults(allResults)
       IN  Ok(analyzeResultsWithAI(uniqueResults, vercelReady, env.aiReplies))

aiEnhancedSearch(options, embeddings, vercelReady, env) ==
  IF ~vercelReady THEN hybridOutcome(options, embeddings, env)
  ELSE IF env.genThrows \/ env.vaultThrows THEN hybridOutcome(options, embeddings, env)
  ELSE LET allResults == hybridPasses(<<options.query>> \o Take(env.expansions, 3),
                                      options, embeddings, env)
           uniqueResults == deduplicateResults(allResults)
       IN  Ok(analyzeResultsWithAI(uniqueResults, vercelReady, env.aiReplies))

dispatch(options, embeddings, vercelReady, env) ==
  CASE options.searchType = "semantic" ->
         semanticSearch(options, embeddings, env.embedThrows)
    [] options.searchType = "keyword" -> keywordOutcome(options, env)
    [] options.searchType = "hybrid" -> hybridOutcome(options, embeddings, env)
    [] options.searchType = "ai_enhanced" ->
         aiEnhancedSearch(options, embeddings, vercelReady, env)
    [] OTHER -> hybridOutcome(options, embeddings, env)

\* ------------------------------------------------------------------------
\* Cache key, cache liveness, history
\* ------------------------------------------------------------------------

\* enhanced-search.ts:67
cacheTimeout == 5 * 60 * 1000

\* enhanced-search.ts:496
HistoryLimit == 100

\* enhanced-search.ts:477-486
generateCacheKey(options) ==
  [query |-> options.query, searchType |-> options.searchType,
   useRerank |-> options.useRerank, fileTypes |-> options.fileTypes,
   tags |-> options.tags, folders |-> options.folders]

\* cacheLive with the timeout taken in seconds
cacheLiveSeconds(cache, key, clock) ==
  /\ key \in DOMAIN cache
  /\ clock - cache[key].timestamp < 5 * 60

\* cacheLive with the boundary instant still served
cacheLiveInclusive(cache, key, clock) ==
  /\ key \in DOMAIN cache
  /\ clock - cache[key].timestamp <= cacheTimeout

\* enhanced-search.ts:81: cached && Date.now() - cached.timestamp < cacheTimeout
cacheLive(cache, key, clock) ==
  /\ key \in DOMAIN cache
  /\ clock - cache[key].timestamp < cacheTimeout

\* addToHistory that keeps the oldest 100 entries instead of the newest
addToHistoryKeepsOldest(history, query, resultCount, clock) ==
  LET all == <<[query |-> query, timestamp |-> clock, resultCount |-> resultCount]>> \o history
  IN  SubSeq(all, Max(1, Len(all) - HistoryLimit + 1), Len(all))

\* enhanced-search.ts:488-498: unshift, then keep the first 100
addToHistory(history, query, resultCount, clock) ==
  Take(<<[query |-> query, timestamp |-> clock, resultCount |-> resultCount]>> \o history,
       HistoryLimit)

\* main.ts:168-169: the settings document before anything was saved
DEFAULT_SETTINGS == [savedSearches |-> <<>>, searchHistory |-> <<>>]

\* enhanced-search.ts:562-565
saveSearchHistory(document, history) == [document EXCEPT !.searchHistory = history]

\* enhanced-search.ts:557-560: Array.from(this.savedSearches.values())
saveSavedSearches(document, saved) == [document EXCEPT !.savedSearches = saved]

\* enhanced-search.ts:110-115: filter, sort, limit
postProcess(results, options) ==
  JsSlice0(sortResults(applyFilters(results, options), options), options.maxResults)

\* ------------------------------------------------------------------------
\* Bounds and input sets of the orchestrator specification
\* ------------------------------------------------------------------------

MaxSearches == 2

MaxPeriods == 1

Callers == {1, 2}

MaxClock == MaxPeriods * cacheTimeout

mkOptions(query, searchType, maxResults, useRerank, sortBy, sortOrder) ==
  [query |-> query, searchType |-> searchType, maxResults |-> maxResults,
   useRerank |-> useRerank, rerankThreshold |-> 500, includeContent |-> TRUE,
   fileTypes |-> <<"md">>, dateRange |-> <<>>, tags |-> <<>>, folders |-> <<>>,
   sortBy |-> sortBy, sortOrder |-> sortOrder]

\* the options callers pass to search in the orchestrator specification
SearchOptionSet ==
  { mkOptions(Q_pay, "keyword", 1, FALSE, "relevance", "desc"),
    mkOptions(Q_pay, "keyword", 3, FALSE, "relevance", "desc"),
    mkOptions(Q_pay, "keyword", 3, TRUE, "relevance", "desc") }
  \cup { mkOptions(Q_pay, t, 3, FALSE, "relevance", "desc") : t \in {"semantic", "hybrid"} }
  \cup { mkOptions(Q_inv_pay, "ai_enhanced", 3, FALSE, "title", "asc") }

\* the most results one analyzeResultsWithAI call is given in this model
MaxAnalyzed == 8

\* generateText outcomes by position: these for the first results, rest for
\* every later one
RepliesOf(these, rest) ==
  [i \in 1..MaxAnalyzed |-> IF i <= Len(these) THEN these[i] ELSE rest]

TextReply(value) == [kind |-> "text", value |-> value]

NoEnv ==
  [vaultThrows |-> FALSE, unreadable |-> {}, embedThrows |-> FALSE,
   genThrows |-> FALSE, expansions |-> <<>>,
   aiReplies |-> RepliesOf(<<>>, TextReply(<<500>>))]

\* what the collaborators may do during one strategy execution
EnvSet ==
  { NoEnv, [NoEnv EXCEPT !.embedThrows = TRUE] }

\* what rerankOnly may produce for one call
RerankReplySet ==
  { [kind |-> "throw", data |-> <<>>],
    [kind |-> "data", data |-> <<[index |-> 0, relevance_score |-> 900]>>],
    [kind |-> "data", data |-> <<[index |-> 1, relevance_score |-> 700],
                                 [index |-> 0, relevance_score |-> 300]>>],
    [kind |-> "data", data |-> <<[index |-> 7, relevance_score |-> 900]>>] }

\* ------------------------------------------------------------------------
\* State
\* ------------------------------------------------------------------------

VARIABLES
  now,            \* Date.now()
  searchCache,    \* Map cacheKey -> {results, timestamp}
  searchHistory,  \* newest first
  calls,          \* per caller: the search call in progress
  ret,            \* the outcome of the search call that returned last
  providerCalls,  \* collaborator calls made so far, by collaborator
  started,        \* search calls started so far
  embeddings,     \* plugin.embeddings is set
  voyageReady,    \* voyageAI.isReady()
  vercelReady,    \* vercelAI.isReady()
  arg,            \* input of a function applied in isolation
  out,            \* its output
  savedSearches,  \* Map id -> SavedSearch, in insertion order
  settings,       \* plugin.settings: the persisted savedSearches and searchHistory
  batchQueue,     \* PerformanceOptimizer.batchQueue
  isProcessing,   \* PerformanceOptimizer.isProcessing
  running,        \* the batches whose processBatch call has not settled
  handed          \* the ids of the jobs handed to processBatch so far

\* the state of the plugin's PerformanceOptimizer
optimizer == <<batchQueue, isProcessing, running, handed>>

vars == <<now, searchCache, searchHistory, calls, ret, providerCalls, started,
          embeddings, voyageReady, vercelReady, arg, out, savedSearches, settings,
          optimizer>>

\* performance.ts:20-21 and 26-29: an empty queue, nothing in progress
OptimizerInit ==
  /\ batchQueue = <<>>
  /\ isProcessing = FALSE
  /\ running = <<>>
  /\ handed = {}

NoCalls == [corpus |-> 0, embed |-> 0, vector |-> 0, rerank |-> 0, textgen |-> 0]

\* options, cached and results are the locals of search (lines 77-86)
IdleCall == [pc |-> "idle", options |-> <<>>, cached |-> <<>>, results |-> <<>>]

\* ret records what the call returned together with its options and with the
\* entry its cache lookup found
NoReturn == [kind |-> "none", results |-> <<>>, options |-> <<>>, cached |-> <<>>]

EngineInit ==
  /\ now = 0
  /\ searchCache = <<>>
  /\ searchHistory = <<>>
  /\ calls = [c \in Callers |-> IdleCall]
  /\ ret = NoReturn
  /\ providerCalls = NoCalls
  /\ started = 0
  /\ savedSearches = <<>>
  /\ settings = DEFAULT_SETTINGS
  /\ OptimizerInit

Init ==
  /\ EngineInit
  /\ embeddings \in BOOLEAN
  /\ voyageReady = embeddings
  /\ vercelReady = FALSE
  /\ arg = <<>>
  /\ out = <<>>

\* ------------------------------------------------------------------------
\* search (enhanced-search.ts:77-131), one action per run between awaits
\* ------------------------------------------------------------------------

Returned(options, cached, results) ==
  [kind |-> "results", results |-> results, options |-> <<options>>, cached |-> cached]

Failed(options, cached) ==
  [kind |-> "error", results |-> <<>>, options |-> <<options>>, cached |-> cached]

\* line 79: this.searchCache.get(cacheKey)
cacheGet(cache, key) == IF key \in DOMAIN cache THEN <<cache[key]>> ELSE <<>>

\* the collaborator calls one strategy execution makes
strategyCalls(options, env) ==
  LET lexical == options.searchType # "semantic"
      vector  == options.searchType # "keyword"
      \* lines 242-252: generateQuestions is called once the provider is ready
      asked == options.searchType = "ai_enhanced" /\ vercelReady
      expanded == asked /\ ~env.genThrows /\ ~env.vaultThrows
      queries == IF expanded THEN <<options.query>> \o Take(env.expansions, 3)
                 ELSE <<options.query>>
      \* lines 318-330: one generateText per deduplicated result
      analyzed == IF expanded
                  THEN Len(deduplicateResults(hybridPasses(queries, options, embeddings, env)))
                  ELSE 0
  IN  [corpus |-> IF lexical /\ ~env.vaultThrows THEN Len(queries) * Len(VaultFiles) ELSE 0,
       embed |-> IF vector /\ embeddings THEN Len(queries) ELSE 0,
       vector |-> IF vector /\ embeddings /\ ~env.embedThrows THEN Len(queries) ELSE 0,
       rerank |-> 0,
       textgen |-> (IF asked THEN 1 ELSE 0) + analyzed]

AddCalls(a, b) == [k \in DOMAIN a |-> a[k] + b[k]]

\* Finalize that records no history entry while another call is in progress
FinalizeDropsConcurrent(c, options, results) ==
  LET final == postProcess(results, options)
  IN  /\ searchCache' = (generateCacheKey(options) :> [results |-> final, timestamp |-> now])
                          @@ searchCache
      /\ searchHistory' = IF \E d \in Callers \ {c} : calls[d].pc # "idle"
                          THEN searchHistory
                          ELSE addToHistory(searchHistory, options.query, Len(final), now)
      /\ settings' = saveSearchHistory(settings, searchHistory')
      /\ calls' = [calls EXCEPT ![c] = IdleCall]
      /\ ret' = Returned(options, calls[c].cached, final)

\* lines 110-126: filter, sort, limit, cache, history, return
Finalize(c, options, results) ==
  LET final == postProcess(results, options)
  IN  /\ searchCache' = (generateCacheKey(options) :> [results |-> final, timestamp |-> now])
                          @@ searchCache
      /\ searchHistory' = addToHistory(searchHistory, options.query, Len(final), now)
      /\ settings' = saveSearchHistory(settings, searchHistory')
      /\ calls' = [calls EXCEPT ![c] = IdleCall]
      /\ ret' = Returned(options, calls[c].cached, final)

\* CacheLookup that lets one call per key run: a call that misses while
\* another call with its key is in progress returns an empty list at once
CacheLookupSingleFlight(c, options) ==
  /\ calls[c].pc = "idle"
  /\ started < MaxSearches
  /\ started' = started + 1
  /\ IF cacheLive(searchCache, generateCacheKey(options), now)
     THEN /\ ret' = Returned(options, cacheGet(searchCache, generateCacheKey(options)),
                              searchCache[generateCacheKey(options)].results)
          /\ UNCHANGED calls
     ELSE IF \E d \in Callers :
               /\ calls[d].pc # "idle"
               /\ generateCacheKey(calls[d].options[1]) = generateCacheKey(options)
     THEN /\ ret' = Returned(options, <<>>, <<>>)
          /\ UNCHANGED calls
     ELSE /\ calls' = [calls EXCEPT ![c] =
                        [pc |-> "strategy", options |-> <<options>>,
                         cached |-> cacheGet(searchCache, generateCacheKey(options)),
                         results |-> <<>>]]
          /\ UNCHANGED ret
  /\ UNCHANGED <<now, searchCache, searchHistory, providerCalls,
                 optimizer, embeddings, voyageReady, vercelReady, arg, out>>

\* lines 78-83: the cache lookup; a live entry is returned at once
CacheLookup(c, options) ==
  /\ calls[c].pc = "idle"
  /\ started < MaxSearches
  /\ started' = started + 1
  /\ IF cacheLive(searchCache, generateCacheKey(options), now)
     THEN /\ ret' = Returned(options, cacheGet(searchCache, generateCacheKey(options)),
                              searchCache[generateCacheKey(options)].results)
          /\ UNCHANGED calls
     ELSE /\ calls' = [calls EXCEPT ![c] =
                        [pc |-> "strategy", options |-> <<options>>,
                         cached |-> cacheGet(searchCache, generateCacheKey(options)),
                         results |-> <<>>]]
          /\ UNCHANGED ret
  /\ UNCHANGED <<now, searchCache, searchHistory, providerCalls,
                 optimizer, embeddings, voyageReady, vercelReady, arg, out>>

\* search called by a user of the engine
SearchStart(c, options) ==
  /\ CacheLookup(c, options)
  /\ UNCHANGED <<savedSearches, settings>>

\* rerankApplies without the readiness and emptiness checks
rerankAppliesWheneverAsked(options, ready, results) == options.useRerank

\* lines 106 and 281-283: the rerank provider is called when the options ask
\* for it, the provider is ready and the strategy returned something
rerankApplies(options, ready, results) ==
  options.useRerank /\ ready /\ Len(results) > 0

\* StrategyDone that records a failed search in the history
StrategyDoneRecordsFailure(c, env) ==
  /\ calls[c].pc = "strategy"
  /\ LET options == calls[c].options[1]
         outcome == dispatch(options, embeddings, vercelReady, env)
     IN  /\ providerCalls' = AddCalls(providerCalls, strategyCalls(options, env))
         /\ IF outcome.kind = "throw"
            THEN /\ calls' = [calls EXCEPT ![c] = IdleCall]
                 /\ ret' = Failed(options, calls[c].cached)
                 /\ searchHistory' = addToHistory(searchHistory, options.query, 0, now)
                 /\ settings' = saveSearchHistory(settings, searchHistory')
                 /\ UNCHANGED searchCache
            ELSE IF rerankApplies(options, voyageReady, outcome.results)
            THEN /\ calls' = [calls EXCEPT ![c].pc = "rerank",
                                           ![c].results = outcome.results]
                 /\ UNCHANGED <<searchCache, searchHistory, settings, ret>>
            ELSE Finalize(c, options, outcome.results)
  /\ UNCHANGED <<now, started, optimizer, embeddings, voyageReady, vercelReady, arg, out,
                 savedSearches>>

\* lines 85-108: the strategy settles; a failure is rethrown (lines 127-130)
StrategyDone(c, env) ==
  /\ calls[c].pc = "strategy"
  /\ LET options == calls[c].options[1]
         outcome == dispatch(options, embeddings, vercelReady, env)
     IN  /\ providerCalls' = AddCalls(providerCalls, strategyCalls(options, env))
         /\ IF outcome.kind = "throw"
            THEN /\ calls' = [calls EXCEPT ![c] = IdleCall]
                 /\ ret' = Failed(options, calls[c].cached)
                 /\ UNCHANGED <<searchCache, searchHistory, settings>>
            ELSE IF rerankApplies(options, voyageReady, outcome.results)
            THEN /\ calls' = [calls EXCEPT ![c].pc = "rerank",
                                           ![c].results = outcome.results]
                 /\ UNCHANGED <<searchCache, searchHistory, settings, ret>>
            ELSE Finalize(c, options, outcome.results)
  /\ UNCHANGED <<now, started, optimizer, embeddings, voyageReady, vercelReady, arg, out,
                 savedSearches>>

\* lines 106-108 and 276-307: rerankOnly settles
RerankDone(c, reply) ==
  /\ calls[c].pc = "rerank"
  /\ LET options == calls[c].options[1]
     IN  /\ providerCalls' = [providerCalls EXCEPT !.rerank = @ + 1]
         /\ Finalize(c, options, rerankResults(calls[c].results, options, voyageReady, reply))
  /\ UNCHANGED <<now, started, optimizer, embeddings, voyageReady, vercelReady, arg, out,
                 savedSearches>>

\* enhanced-search.ts:600-602
clearCache ==
  /\ searchCache # <<>>
  /\ searchCache' = <<>>
  /\ UNCHANGED <<now, searchHistory, calls, ret, providerCalls, started,
                 optimizer, embeddings, voyageReady, vercelReady, arg, out,
                 savedSearches, settings>>

\* The clock advances to just before, then exactly onto, each multiple of
\* the cache timeout: 0, T-1, T, 2T-1, 2T, ...
Tick ==
  /\ now < MaxClock
  /\ now' = IF now % cacheTimeout = cacheTimeout - 1 THEN now + 1
            ELSE now + cacheTimeout - 1
  /\ UNCHANGED <<searchCache, searchHistory, calls, ret, providerCalls, started,
                 optimizer, embeddings, voyageReady, vercelReady, arg, out,
                 savedSearches, settings>>

Next ==
  \/ \E c \in Callers, options \in SearchOptionSet : SearchStart(c, options)
  \/ \E c \in Callers, env \in EnvSet : StrategyDone(c, env)
  \/ \E c \in Callers, reply \in RerankReplySet : RerankDone(c, reply)
  \/ clearCache
  \/ Tick

Spec == Init /\ [][Next]_vars

\* ------------------------------------------------------------------------
\* Specifications that apply one function of the engine to bounded inputs.
\* arg holds the input and whether the function has been applied, out the
\* output; the engine's own state stays as constructed.
\* ------------------------------------------------------------------------

MaxListLen == 2

\* the lists of at most n elements of S without a repeated id
RECURSIVE ListsUpTo(_, _)
ListsUpTo(S, n) ==
  IF n = 0 THEN {<<>>}
  ELSE LET shorter == ListsUpTo(S, n - 1)
       IN  shorter \cup { Append(l, x) : l \in { m \in shorter : Len(m) = n - 1 },
                                         x \in S }

UniqueIds(list) == \A i, j \in 1..Len(list) : list[i].id = list[j].id => i = j

ResultLists(S, n) == { l \in ListsUpTo(S, n) : UniqueIds(l) }

T_x == <<"x">>

T_y == <<"y">>

\* a result as a strategy returns it, before any later stage
mkResult(id, title, score) ==
  [id |-> id, title |-> title, file |-> <<>>, path |-> <<>>, score |-> score,
   rerankScore |-> <<>>, finalScore |-> <<>>, modified |-> <<>>, tags |-> <<>>,
   wordCount |-> 0]

EngineIdle ==
  /\ EngineInit
  /\ embeddings = TRUE
  /\ voyageReady = TRUE
  /\ vercelReady = FALSE

EngineUnchanged ==
  UNCHANGED <<now, searchCache, searchHistory, calls, ret, providerCalls, started,
              optimizer, embeddings, voyageReady, vercelReady, savedSearches, settings>>

\* --- hybridSearch ---------------------------------------------------------

HybridIds == {"r1", "r2", "r3"}

HybridScores == {0, 900, 1000}

HybridInputs ==
  ResultLists({ mkResult(id, T_x, sc) : id \in HybridIds, sc \in HybridScores }, MaxListLen)

HybridInit ==
  /\ EngineIdle
  /\ arg \in { [semantic |-> sem, keyword |-> key, applied |-> FALSE] :
                 sem \in HybridInputs, key \in HybridInputs }
  /\ out = <<>>

ApplyHybrid ==
  /\ ~arg.applied
  /\ arg' = [arg EXCEPT !.applied = TRUE]
  /\ out' = hybridSearch(arg.semantic, arg.keyword)
  /\ EngineUnchanged

HybridNext == ApplyHybrid

HybridSpec == HybridInit /\ [][HybridNext]_vars

\* the score of the element of list with this id, 0 when there is none
ScoreIn(list, id) ==
  IF \E i \in 1..Len(list) : list[i].id = id
  THEN list[CHOOSE i \in 1..Len(list) : list[i].id = id].score
  ELSE 0

IdsOf(list) == { list[i].id : i \in 1..Len(list) }

\* C5: the output of hybridSearch has one result per id of either input; its
\* finalScore is 0.7 x the semantic score plus 0.3 x the lexical score, a
\* missing side counting as 0; the output is ordered by finalScore, highest
\* first.
C5_HybridWeighting ==
  arg.applied =>
    /\ IdsOf(out) = IdsOf(arg.semantic) \cup IdsOf(arg.keyword)
    /\ UniqueIds(out)
    /\ \A i \in 1..Len(out) :
         /\ out[i].finalScore # <<>>
         /\ out[i].finalScore[1] * 10
              = ScoreIn(arg.semantic, out[i].id) * 7 + ScoreIn(arg.keyword, out[i].id) * 3
    /\ \A i, j \in 1..Len(out) :
         i < j => out[i].finalScore[1] >= out[j].finalScore[1]

\* C5 witness: a semantic-only result of score 0.9 has finalScore 0.63 and
\* stands before a lexical-only result of score 1.0 with finalScore 0.3, and
\* a third result found by both searches has the sum of the two weights.
C5_Witness ==
  /\ arg.applied
  /\ Len(out) = 3
  /\ \E i, j, k \in 1..3 :
       /\ i < j
       /\ out[i].id \notin IdsOf(arg.keyword)
       /\ out[i].score = 900 /\ out[i].finalScore = <<630>>
       /\ out[j].id \notin IdsOf(arg.semantic)
       /\ out[j].score = 1000 /\ out[j].finalScore = <<300>>
       /\ out[k].id \in IdsOf(arg.semantic) \cap IdsOf(arg.keyword)
       /\ out[k].finalScore = <<930>>

\* --- sortResults ----------------------------------------------------------

SortInputs ==
  ResultLists({ mkResult(id, t, 500) : id \in HybridIds, t \in {T_x, T_y} },
              MaxListLen + 1)

SortInit ==
  /\ EngineIdle
  /\ arg \in { [results |-> l,
                options |-> mkOptions(Q_pay, "keyword", 3, FALSE, sb, so),
                applied |-> FALSE] :
                 l \in SortInputs,
                 sb \in {"relevance", "date", "title", "size"},
                 so \in {"asc", "desc"} }
  /\ out = <<>>

ApplySort ==
  /\ ~arg.applied
  /\ arg' = [arg EXCEPT !.applied = TRUE]
  /\ out' = sortResults(arg.results, arg.options)
  /\ EngineUnchanged

SortNext == ApplySort

SortSpec == SortInit /\ [][SortNext]_vars

\* the position of the element with this id
PosOf(list, id) == CHOOSE i \in 1..Len(list) : list[i].id = id

\* C6: with sortBy 'title', sortOrder 'asc' gives the results in ascending
\* order of title and sortOrder 'desc' in descending order; results with
\* equal titles keep their relative input order; nothing is lost or added.
C6_TitleOrder ==
  (arg.applied /\ arg.options.sortBy = "title") =>
    /\ Len(out) = Len(arg.results)
    /\ Range(out) = Range(arg.results)
    /\ \A i, j \in 1..Len(out) :
         i < j =>
           /\ arg.options.sortOrder = "asc"
                => localeCompare(out[i].title, out[j].title) <= 0
           /\ arg.options.sortOrder = "desc"
                => localeCompare(out[i].title, out[j].title) >= 0
           /\ out[i].title = out[j].title
                => PosOf(arg.results, out[i].id) < PosOf(arg.results, out[j].id)

\* --- applyFilters ---------------------------------------------------------

P_ax == <<"a", "/", "x", ".", "m", "d">>

P_bx == <<"b", "/", "x", ".", "p", "d", "f">>

F_a == <<"a", "/">>

\* the shapes of result the filters distinguish: no file, path, date or tags
\* (a vector-index node); a markdown file; a pdf file; results with tags
FilterShapes ==
  { mkResult("r1", T_x, 500),
    [mkResult("r2", T_x, 500) EXCEPT
       !.file = <<[path |-> P_ax, extension |-> "md"]>>, !.path = P_ax,
       !.modified = <<10>>],
    [mkResult("r3", T_y, 500) EXCEPT
       !.file = <<[path |-> P_bx, extension |-> "pdf"]>>, !.path = P_bx,
       !.modified = <<30>>],
    [mkResult("r4", T_y, 500) EXCEPT
       !.file = <<[path |-> P_ax, extension |-> "md"]>>, !.path = P_ax,
       !.modified = <<30>>, !.tags = <<<<"t">>>>],
    [mkResult("r5", T_x, 500) EXCEPT !.tags = <<<<"t">>>>],
    [mkResult("r6", T_x, 500) EXCEPT !.tags = <<<<>>>>, !.modified = <<10>>] }

FilterOptions ==
  { [mkOptions(Q_pay, "keyword", 3, FALSE, "relevance", "desc") EXCEPT
       !.fileTypes = ft, !.dateRange = dr, !.tags = tg, !.folders = fo] :
      ft \in {<<>>, <<"md">>},
      dr \in {<<>>, <<[from |-> 20, to |-> 40]>>},
      tg \in {<<>>, <<<<>>>>, <<<<"t">>>>},
      fo \in {<<>>, <<<<>>>>, <<<<F_a>>>>} }

FilterInit ==
  /\ EngineIdle
  /\ arg \in { [results |-> l, options |-> o, applied |-> FALSE] :
                 l \in ResultLists(FilterShapes, MaxListLen), o \in FilterOptions }
  /\ out = <<>>

ApplyFilters ==
  /\ ~arg.applied
  /\ arg' = [arg EXCEPT !.applied = TRUE]
  /\ out' = applyFilters(arg.results, arg.options)
  /\ EngineUnchanged

FilterNext == ApplyFilters

FilterSpec == FilterInit /\ [][FilterNext]_vars

\* a filter is configured
TypeFilterOn(o) == Len(o.fileTypes) > 0

DateFilterOn(o) == o.dateRange # <<>>

TagFilterOn(o) == o.tags # <<>> /\ Len(o.tags[1]) > 0

FolderFilterOn(o) == o.folders # <<>> /\ Len(o.folders[1]) > 0

\* C7: a result that has no file, no modified timestamp and no path passes
\* the file-type, date-range and folder filters whichever of them are
\* configured, so it is kept whenever the tag filter is not configured; a
\* result without tags is dropped when the tag filter is configured.
C7_ExcludeOnMismatchOnly ==
  arg.applied =>
    \A r \in Range(arg.results) :
      /\ ( /\ r.file = <<>> /\ r.modified = <<>> /\ r.path = <<>>
           /\ ~TagFilterOn(arg.options) )
         => r \in Range(out)
      /\ (TagFilterOn(arg.options) /\ r.tags = <<>>) => r \notin Range(out)

\* C8: with only the file-type filter in play, applyFilters keeps, in input
\* order, exactly the results that have no file or whose file extension is
\* in options.fileTypes; with an empty fileTypes it keeps every result.
C8_FileTypeFilter ==
  ( /\ arg.applied
    /\ ~DateFilterOn(arg.options) /\ ~TagFilterOn(arg.options)
    /\ ~FolderFilterOn(arg.options) )
  => out = SelectSeqBy(arg.results,
             { r \in Range(arg.results) :
                 \/ arg.options.fileTypes = <<>>
                 \/ r.file = <<>>
                 \/ \E i \in 1..Len(arg.options.fileTypes) :
                      arg.options.fileTypes[i] = r.file[1].extension })

\* C8 witness: fileTypes is ['md'] and no other filter is configured; a
\* result without a file and a markdown result are kept, a pdf is dropped.
C8_Witness ==
  /\ arg.applied
  /\ arg.options.fileTypes = <<"md">>
  /\ ~DateFilterOn(arg.options) /\ ~TagFilterOn(arg.options)
  /\ ~FolderFilterOn(arg.options)
  /\ \E r \in Range(arg.results) :
       r.file # <<>> /\ r.file[1].extension = "pdf" /\ r \notin Range(out)
  /\ \E r \in Range(out) : r.file = <<>>

\* --- rerankResults --------------------------------------------------------

RerankInputs ==
  ResultLists({ mkResult(id, T_x, sc) : id \in {"r1", "r2"}, sc \in {0, 500} }
              \cup { [mkResult("r3", T_y, 1000) EXCEPT !.finalScore = <<300>>] },
              MaxListLen)

RerankItems ==
  { [index |-> ix, relevance_score |-> rel] : ix \in 0..MaxListLen, rel \in {0, 300, 900} }

UniqueIndexes(data) == \A i, j \in 1..Len(data) : data[i].index = data[j].index => i = j

RerankReplies ==
  { [kind |-> "throw", data |-> <<>>], [kind |-> "null", data |-> <<>>] }
  \cup { [kind |-> "data", data |-> d] :
           d \in { l \in ListsUpTo(RerankItems, MaxListLen) : UniqueIndexes(l) } }

RerankInit ==
  /\ EngineIdle
  /\ arg \in { [results |-> l,
                options |-> [mkOptions(Q_pay, "keyword", 3, TRUE, "relevance", "desc")
                               EXCEPT !.rerankThreshold = th],
                reply |-> rp, applied |-> FALSE] :
                 l \in RerankInputs, th \in {0, 300}, rp \in RerankReplies }
  /\ out = <<>>

ApplyRerank ==
  /\ ~arg.applied
  /\ arg' = [arg EXCEPT !.applied = TRUE]
  /\ out' = rerankResults(arg.results, arg.options, voyageReady, arg.reply)
  /\ EngineUnchanged

RerankNext == ApplyRerank

RerankSpec == RerankInit /\ [][RerankNext]_vars

\* the items of the reply at or above the threshold
Qualifying(reply, o) ==
  { i \in 1..Len(reply.data) : reply.data[i].relevance_score >= o.rerankThreshold }

\* C9: when the provider answers with items whose indexes name submitted
\* candidates, the output has exactly one result per item at or above the
\* threshold: the candidate at that index with rerankScore = relevanceScore
\* and finalScore = 0.3 x score + 0.7 x relevanceScore; it is ordered by
\* finalScore, highest first.
C9_RerankBlending ==
  ( /\ arg.applied
    /\ Len(arg.results) > 0
    /\ arg.reply.kind = "data"
    /\ \A i \in Qualifying(arg.reply, arg.options) :
         arg.reply.data[i].index \in 0..(Len(arg.results) - 1) )
  => /\ Len(out) = Cardinality(Qualifying(arg.reply, arg.options))
     /\ \A i \in Qualifying(arg.reply, arg.options) :
          LET item == arg.reply.data[i]
              cand == arg.results[item.index + 1]
          IN  \E k \in 1..Len(out) :
                /\ out[k].id = cand.id
                /\ out[k].rerankScore = <<item.relevance_score>>
                /\ out[k].finalScore # <<>>
                /\ out[k].finalScore[1] * 10 = cand.score * 3 + item.relevance_score * 7
                /\ out[k] = [cand EXCEPT !.rerankScore = out[k].rerankScore,
                                         !.finalScore = out[k].finalScore]
     /\ \A i, j \in 1..Len(out) :
          i < j => out[i].finalScore[1] >= out[j].finalScore[1]

\* C9 witness: a candidate of score 0.5 rated 0.9 comes out with rerankScore
\* 0.9 and finalScore 0.78, and a candidate rated below the threshold is gone.
C9_Witness ==
  /\ arg.applied
  /\ arg.reply.kind = "data"
  /\ Len(arg.results) = 2
  /\ Len(arg.reply.data) = 2
  /\ arg.options.rerankThreshold = 300
  /\ Len(out) = 1
  /\ out[1].score = 500
  /\ out[1].rerankScore = <<900>>
  /\ out[1].finalScore = <<780>>
  /\ \E i \in 1..2 : arg.reply.data[i].relevance_score = 0

\* --- addToHistory over a long run of recorded searches ---------------------
\* arg is the log of every entry recorded so far, oldest first; started
\* counts them.  The query cycles through three values, the result count is
\* free for the first entries, and the clock moves on every second record,
\* so that equal entries follow one another.

MaxRecorded == 103

FreeCounts == 3

HistInit ==
  /\ EngineIdle
  /\ arg = <<>>
  /\ out = <<>>

RecordSearch(resultCount) ==
  /\ started < MaxRecorded
  /\ started >= FreeCounts => resultCount = 1
  /\ LET query == IF started % 3 = 2 THEN Q_tax ELSE Q_pay
     IN  /\ searchHistory' = addToHistory(searchHistory, query, resultCount, now)
         /\ settings' = saveSearchHistory(settings, searchHistory')
         /\ arg' = Append(arg, [query |-> query, timestamp |-> now,
                                resultCount |-> resultCount])
  /\ started' = started + 1
  /\ now' = now + (started % 2)
  /\ UNCHANGED <<searchCache, calls, ret, providerCalls, optimizer, embeddings, voyageReady,
                 vercelReady, out, savedSearches>>

HistNext == \E resultCount \in {0, 1, 3} : RecordSearch(resultCount)

HistSpec == HistInit /\ [][HistNext]_vars

\* C4 (as stated): the history never has more than 100 entries and holds the
\* most recent min(n, 100) recorded entries in recording order, oldest first.
C4_Original ==
  /\ Len(searchHistory) = Min(started, 100)
  /\ \A i \in 1..Len(searchHistory) :
       searchHistory[i] = arg[started - Len(searchHistory) + i]

\* C4 (amended): the history never has more than 100 entries and holds the
\* most recent min(n, 100) recorded entries newest first, each recorded
\* entry on its own, equal ones included; on overflow the oldest one is gone.
C4_HistoryBound ==
  /\ Len(searchHistory) <= 100
  /\ Len(searchHistory) = Min(started, 100)
  /\ \A i \in 1..Len(searchHistory) : searchHistory[i] = arg[started - i + 1]

\* C4 witness: more than 100 entries were recorded; the history has 100, its
\* first is the last one recorded, and two neighbours are equal entries.
C4_Witness ==
  /\ started > 100
  /\ Len(searchHistory) = 100
  /\ searchHistory[1] = arg[started]
  /\ searchHistory[100] = arg[started - 99]
  /\ searchHistory[100] # arg[1]
  /\ \E i \in 1..99 : searchHistory[i] = searchHistory[i + 1]

\* ------------------------------------------------------------------------
\* Properties of the orchestrator (specification Spec)
\* ------------------------------------------------------------------------

\* a call of caller c leaves its last await and returns or rethrows
Completes(c) == calls[c].pc \in {"strategy", "rerank"} /\ calls'[c].pc = "idle"

\* the history after recording (query, now, resultCount) in front of it
Recorded(history, query, resultCount) ==
  Take(<<[query |-> query, timestamp |-> now, resultCount |-> resultCount]>> \o history, 100)

\* the cache after storing list under key at the current instant
Stored(cache, key, list) ==
  /\ DOMAIN searchCache' = DOMAIN cache \cup {key}
  /\ searchCache'[key] = [results |-> list, timestamp |-> now]
  /\ \A k \in DOMAIN cache \ {key} : searchCache'[k] = cache[k]

\* C1: a search that starts while the cache holds an entry for its key that
\* is less than 5 minutes old returns exactly the stored list, starts no
\* strategy, calls no collaborator and leaves the history, the cache entry
\* and its timestamp unchanged.
C1_CacheHitPureRead ==
  [][\A c \in Callers, o \in SearchOptionSet :
       LET key == generateCacheKey(o)
       IN  ( /\ SearchStart(c, o)
             /\ key \in DOMAIN searchCache
             /\ now - searchCache[key].timestamp < 5 * 60 * 1000 )
           => /\ ret'.kind = "results"
              /\ ret'.results = searchCache[key].results
              /\ calls' = calls
              /\ providerCalls' = providerCalls
              /\ searchHistory' = searchHistory
              /\ searchCache' = searchCache]_vars

\* C1 witness: the second of two searches was served from an entry stored
\* cacheTimeout - 1 ms earlier; one history entry, the entry still in place.
C1_Witness ==
  /\ ret.kind = "results"
  /\ ret.cached # <<>>
  /\ ret.results = ret.cached[1].results
  /\ now - ret.cached[1].timestamp = cacheTimeout - 1
  /\ generateCacheKey(ret.options[1]) \in DOMAIN searchCache
  /\ searchCache[generateCacheKey(ret.options[1])] = ret.cached[1]
  /\ started = 2
  /\ Len(searchHistory) = 1

\* C2 (as stated): an entry that is 5 minutes old or older is not returned;
\* the search re-executes the strategy and, when it completes, has
\* overwritten the entry with its result list and the current timestamp and
\* has appended a history entry.
C2_Original ==
  [][\A c \in Callers :
       /\ \A o \in SearchOptionSet :
            LET key == generateCacheKey(o)
            IN  ( /\ SearchStart(c, o)
                  /\ key \in DOMAIN searchCache
                  /\ now - searchCache[key].timestamp >= 5 * 60 * 1000 )
                => calls'[c].pc = "strategy" /\ ret' = ret
       /\ (Completes(c) /\ calls[c].cached # <<>>)
          => LET o == calls[c].options[1]
             IN  /\ ret'.kind = "results"
                 /\ Stored(searchCache, generateCacheKey(o), ret'.results)
                 /\ searchHistory' = Recorded(searchHistory, o.query, Len(ret'.results))]_vars

\* C2 (amended): an entry that is 5 minutes old or older is not returned; the
\* search re-executes the strategy and, when it completes, either the
\* strategy raised and the cache and the history are as before, or it has
\* overwritten the entry with its result list and the current timestamp and
\* has appended a history entry.
C2_ExpiredEntryReplaced ==
  [][\A c \in Callers :
       /\ \A o \in SearchOptionSet :
            LET key == generateCacheKey(o)
            IN  ( /\ SearchStart(c, o)
                  /\ key \in DOMAIN searchCache
                  /\ now - searchCache[key].timestamp >= 5 * 60 * 1000 )
                => calls'[c].pc = "strategy" /\ ret' = ret
       /\ (Completes(c) /\ calls[c].cached # <<>>)
          => LET o == calls[c].options[1]
             IN  \/ /\ ret'.kind = "error"
                    /\ searchCache' = searchCache
                    /\ searchHistory' = searchHistory
                 \/ /\ ret'.kind = "results"
                    /\ Stored(searchCache, generateCacheKey(o), ret'.results)
                    /\ searchHistory' = Recorded(searchHistory, o.query, Len(ret'.results))]_vars

\* C2 witness: a search found an entry exactly 5 minutes old, ran, and its
\* list now sits in the cache under a timestamp 5 minutes later than the old
\* one; the history has the entries of both searches.
C2_Witness ==
  /\ ret.kind = "results"
  /\ ret.cached # <<>>
  /\ generateCacheKey(ret.options[1]) \in DOMAIN searchCache
  /\ searchCache[generateCacheKey(ret.options[1])].timestamp
       = ret.cached[1].timestamp + cacheTimeout
  /\ searchCache[generateCacheKey(ret.options[1])].results = ret.results
  /\ Len(searchHistory) = 2
  /\ searchHistory[1].timestamp = ret.cached[1].timestamp + cacheTimeout

\* C3: every list search returns has at most options.maxResults elements.
C3_AtMostMaxResults ==
  ret.kind = "results" => Len(ret.results) <= ret.options[1].maxResults

\* the provider's reply cannot be processed: it threw, or an item that
\* passes the threshold names an index outside the submitted documents
ReplyFails(reply, results, o) ==
  \/ reply.kind = "throw"
  \/ \E i \in 1..Len(reply.data) :
       /\ reply.data[i].relevance_score >= o.rerankThreshold
       /\ reply.data[i].index \notin 0..(Len(results) - 1)

\* C10: when the rerank call fails, rerankResults returns its input list
\* unchanged and search goes on to filter, sort, limit, cache and record the
\* history, and returns a list.
C10_RerankBestEffort ==
  [][\A c \in Callers, reply \in RerankReplySet :
       ( /\ RerankDone(c, reply)
         /\ ReplyFails(reply, calls[c].results, calls[c].options[1]) )
       => LET o == calls[c].options[1]
              final == postProcess(calls[c].results, o)
          IN  /\ rerankResults(calls[c].results, o, voyageReady, reply) = calls[c].results
              /\ ret'.kind = "results"
              /\ ret'.results = final
              /\ Stored(searchCache, generateCacheKey(o), final)
              /\ searchHistory' = Recorded(searchHistory, o.query, Len(final))]_vars

\* C10 witness: a search with useRerank and a ready provider returned a
\* non-empty list after the rerank call was made, and no element carries a
\* rerankScore; the list is cached and recorded.
C10_Witness ==
  /\ ret.kind = "results"
  /\ ret.options[1].useRerank
  /\ voyageReady
  /\ providerCalls.rerank = 1
  /\ started = 1
  /\ ret.results # <<>>
  /\ \A i \in 1..Len(ret.results) : ret.results[i].rerankScore = <<>>
  /\ searchCache[generateCacheKey(ret.options[1])].results = ret.results
  /\ Len(searchHistory) = 1
  /\ searchHistory[1].resultCount = Len(ret.results)

\* --- deduplicateResults -----------------------------------------------------

MaxDedupLen == 3

\* results as the hybrid passes of aiEnhancedSearch hand them to
\* deduplicateResults: vector-index nodes (no file, finalScore 0.7 x score)
\* and vault files (finalScore 0.3 x score)
DedupShapes ==
  { [mkResult(<<"semantic", 0>>, t, sc) EXCEPT !.finalScore = <<Weighted(sc, 7)>>] :
      t \in {T_x, T_y}, sc \in {0, 400, 1000} }
  \cup
  { [mkResult(<<"keyword", p>>, T_x, sc) EXCEPT
       !.file = <<[path |-> p, extension |-> "md"]>>, !.path = p,
       !.finalScore = <<Weighted(sc, 3)>>] :
      p \in {P_ax, P_bx}, sc \in {1000, 2000} }

DedupInit ==
  /\ EngineIdle
  /\ arg \in { [results |-> l, applied |-> FALSE] : l \in ListsUpTo(DedupShapes, MaxDedupLen) }
  /\ out = <<>>

ApplyDedup ==
  /\ ~arg.applied
  /\ arg' = [arg EXCEPT !.applied = TRUE]
  /\ out' = deduplicateResults(arg.results)
  /\ EngineUnchanged

DedupNext == ApplyDedup

DedupSpec == DedupInit /\ [][DedupNext]_vars

\* the key of a result: its file's path, or its title when it has no file
KeyOf(r) == IF r.file # <<>> THEN r.file[1].path ELSE r.title

\* the ordering score of a result: finalScore, or score when there is none
OrderingScore(r) == IF r.finalScore # <<>> /\ r.finalScore[1] # 0 THEN r.finalScore[1] ELSE r.score

\* C11: deduplicateResults returns exactly one result per key (file path if
\* present, else title), each taken from the input, and the result kept for
\* a key has the greatest ordering score among the inputs with that key.
C11_DedupKeepsMax ==
  arg.applied =>
    /\ { KeyOf(out[i]) : i \in 1..Len(out) }
         = { KeyOf(arg.results[j]) : j \in 1..Len(arg.results) }
    /\ \A i, k \in 1..Len(out) : KeyOf(out[i]) = KeyOf(out[k]) => i = k
    /\ \A i \in 1..Len(out) :
         /\ out[i] \in Range(arg.results)
         /\ \A j \in 1..Len(arg.results) :
              KeyOf(arg.results[j]) = KeyOf(out[i])
                => OrderingScore(out[i]) >= OrderingScore(arg.results[j])

\* C11 witness: three inputs, the first two with the same title and no file,
\* the lower finalScore first; the output has two results and the one kept
\* for the shared title is the second input.
C11_Witness ==
  /\ arg.applied
  /\ Len(arg.results) = 3
  /\ arg.results[1].file = <<>> /\ arg.results[2].file = <<>>
  /\ arg.results[1].title = arg.results[2].title
  /\ arg.results[1].finalScore = <<280>>
  /\ arg.results[2].finalScore = <<700>>
  /\ Len(out) = 2
  /\ out[1] = arg.results[2]

\* ------------------------------------------------------------------------
\* The orchestrator with every provider configuration (specification
\* ProviderSpec): the embedding and text-generation providers are present or
\* not, the rerank provider is absent, and the collaborators may fail or
\* answer in each of the ways of ProviderEnvSet.
\* ------------------------------------------------------------------------

ProviderOptionSet ==
  { mkOptions(Q_inv_pay, t, 6, FALSE, "relevance", "desc") :
      t \in {"semantic", "keyword", "hybrid", "ai_enhanced"} }

ProviderEnvSet ==
  { NoEnv,
    [NoEnv EXCEPT !.embedThrows = TRUE],
    [NoEnv EXCEPT !.genThrows = TRUE],
    [NoEnv EXCEPT !.vaultThrows = TRUE],
    [NoEnv EXCEPT !.unreadable = {1}],
    [NoEnv EXCEPT !.expansions = <<Q_tax>>],
    [NoEnv EXCEPT !.expansions = <<Q_tax, Q_pay, Q_inv_pay>>],
    [NoEnv EXCEPT !.expansions = <<Q_tax>>,
                  !.aiReplies = RepliesOf(<<TextReply(<<900>>), [kind |-> "throw"],
                                            TextReply(<<>>), TextReply(<<0>>)>>,
                                          TextReply(<<100>>))] }

ProviderInit ==
  /\ EngineInit
  /\ embeddings \in BOOLEAN
  /\ voyageReady = FALSE
  /\ vercelReady \in BOOLEAN
  /\ arg = <<>>
  /\ out = <<>>

ProviderNext ==
  \/ \E c \in Callers, options \in ProviderOptionSet : SearchStart(c, options)
  \/ \E c \in Callers, env \in ProviderEnvSet : StrategyDone(c, env)

ProviderSpec == ProviderInit /\ [][ProviderNext]_vars

\* the ids a lexical search gives its results
IsLexicalId(id) == id[1] = "keyword"

\* C12: while the text-generation provider is not ready, a search of type
\* 'ai_enhanced' that executes its strategy ends as the search of type
\* 'hybrid' with otherwise identical options ends under the same collaborator
\* behaviour (the same ranked list, or the same failure), and calls no
\* text-generation operation.
C12_FallbackEquivalence ==
  [][\A c \in Callers, env \in ProviderEnvSet :
       ( /\ StrategyDone(c, env)
         /\ calls[c].options[1].searchType = "ai_enhanced"
         /\ ~vercelReady )
       => LET asHybrid == [calls[c].options[1] EXCEPT !.searchType = "hybrid"]
              hybrid == hybridOutcome(asHybrid, embeddings, env)
          IN  /\ providerCalls'.textgen = providerCalls.textgen
              /\ ret'.kind = IF hybrid.kind = "throw" THEN "error" ELSE "results"
              /\ hybrid.kind = "ok" => ret'.results = postProcess(hybrid.results, asHybrid)]_vars

\* C12 witness: without a text-generation provider and with an embedding
\* provider, an 'ai_enhanced' search returned a list holding vector and
\* lexical results, and no text-generation operation was called.
C12_Witness ==
  /\ ~vercelReady
  /\ embeddings
  /\ ret.kind = "results"
  /\ ret.options[1].searchType = "ai_enhanced"
  /\ ret.cached = <<>>
  /\ \E i, j \in 1..Len(ret.results) :
       IsLexicalId(ret.results[i].id) /\ ~IsLexicalId(ret.results[j].id)
  /\ providerCalls.textgen = 0
  /\ providerCalls.corpus > 0

\* C13: with no embedding provider configured (and a readable vault listing),
\* a search of type 'semantic' ends with an error at the caller, while a
\* search of type 'hybrid' or 'ai_enhanced' returns a list made of lexical
\* results only; for 'hybrid' these are the results of the lexical search of
\* the query.
C13_MissingEmbeddingProvider ==
  [][\A c \in Callers, env \in ProviderEnvSet :
       ( /\ StrategyDone(c, env)
         /\ ~embeddings
         /\ ~env.vaultThrows )
       => LET o == calls[c].options[1]
          IN  /\ o.searchType = "semantic" =>
                   /\ ret'.kind = "error"
                   /\ ret'.results = <<>>
              /\ o.searchType \in {"hybrid", "ai_enhanced"} =>
                   /\ ret'.kind = "results"
                   /\ \A i \in 1..Len(ret'.results) : IsLexicalId(ret'.results[i].id)
              /\ o.searchType = "hybrid" =>
                   IdsOf(ret'.results) = IdsOf(keywordSearch(o, env.unreadable))]_vars

\* C13 witness: without an embedding provider one 'semantic' search failed
\* and a 'hybrid' search returned a non-empty list of lexical results.
C13_Witness ==
  /\ ~embeddings
  /\ started = 2
  /\ ret.kind = "results"
  /\ ret.options[1].searchType = "hybrid"
  /\ ret.results # <<>>
  /\ \A i \in 1..Len(ret.results) : IsLexicalId(ret.results[i].id)
  /\ Len(searchHistory) = 1
  /\ providerCalls.embed = 0

\* C20: no two results of a list search returns have the same id.
C20_UniqueResultIds ==
  ret.kind = "results" => UniqueIds(ret.results)

\* the hybrid searches one strategy execution ran, read off the vault reads:
\* every hybrid search that lists the vault reads each of its files once
HybridRuns(before, after) == (after.corpus - before.corpus) \div Len(VaultFiles)

\* C23: when the text-generation provider is ready and answers (and the
\* vault can be listed), an 'ai_enhanced' search runs the hybrid search
\* exactly 4 times, once for the original query and once for each of 3
\* expansion queries, and sends every result of the deduplicated
\* concatenation of the 4 lists to AI scoring.
C23_QueryExpansionFanOut ==
  [][\A c \in Callers, env \in ProviderEnvSet :
       ( /\ StrategyDone(c, env)
         /\ calls[c].options[1].searchType = "ai_enhanced"
         /\ vercelReady
         /\ ~env.genThrows
         /\ ~env.vaultThrows )
       => /\ HybridRuns(providerCalls, providerCalls') = 4
          /\ Len(env.expansions) = 3
          /\ providerCalls'.textgen - providerCalls.textgen
               = 1 + Len(deduplicateResults(
                         hybridPasses(<<calls[c].options[1].query>> \o env.expansions,
                                      calls[c].options[1], embeddings, env)))]_vars

\* a result reduced to its id, score and finalScore
Scored(r) == <<r.id, r.score, r.finalScore>>

\* C24: in a 'hybrid' search the semantic and the lexical search are both
\* started; when the semantic search fails the result is exactly the lexical
\* results, each with finalScore 0.3 x score, and no error is raised; when
\* the lexical search fails the search fails, whether or not the semantic
\* search succeeded.
C24_HybridFailurePolicy ==
  [][\A c \in Callers, env \in ProviderEnvSet :
       ( /\ StrategyDone(c, env)
         /\ calls[c].options[1].searchType = "hybrid" )
       => LET o == calls[c].options[1]
              lexical == keywordSearch(o, env.unreadable)
          IN  /\ embeddings => providerCalls'.embed = providerCalls.embed + 1
              /\ ~env.vaultThrows =>
                   providerCalls'.corpus = providerCalls.corpus + Len(VaultFiles)
              /\ env.vaultThrows =>
                   /\ ret'.kind = "error"
                   /\ ret'.results = <<>>
              /\ (~env.vaultThrows /\ (~embeddings \/ env.embedThrows)) =>
                   /\ ret'.kind = "results"
                   /\ Len(ret'.results) = Len(lexical)
                   /\ { Scored(ret'.results[i]) : i \in 1..Len(ret'.results) }
                        = { <<lexical[i].id, lexical[i].score,
                              <<Weighted(lexical[i].score, 3)>> >> : i \in 1..Len(lexical) }]_vars

\* C24 witness: with an embedding provider whose embedQuery was called and
\* rejected, a 'hybrid' search returned a non-empty list of lexical results
\* only, each with finalScore 0.3 x score.
C24_Witness ==
  /\ embeddings
  /\ started = 1
  /\ providerCalls.embed = 1
  /\ providerCalls.vector = 0
  /\ ret.kind = "results"
  /\ ret.options[1].searchType = "hybrid"
  /\ ret.results # <<>>
  /\ \A i \in 1..Len(ret.results) :
       /\ IsLexicalId(ret.results[i].id)
       /\ ret.results[i].finalScore = <<Weighted(ret.results[i].score, 3)>>

\* C24 witness of the other failure: the semantic search was started and the
\* 'hybrid' search failed because the vault could not be listed.
C24_LexicalFailureReached ==
  /\ embeddings
  /\ started = 1
  /\ providerCalls.embed = 1
  /\ providerCalls.vector = 1
  /\ providerCalls.corpus = 0
  /\ ret.kind = "error"
  /\ ret.options[1].searchType = "hybrid"

\* ------------------------------------------------------------------------
\* Saved searches, history access, analytics and construction
\* (enhanced-search.ts:500-598), with the specification SavedSpec: one
\* caller, a clock that moves by single milliseconds, and the plugin reloads
\* that construct a new engine from the persisted settings.  The cache is
\* emptied by a reload only; clearCache and the expiry of entries are part of
\* the specification Spec.
\* ------------------------------------------------------------------------

MaxSaved == 2

MaxMillis == 1

N_a == <<"a">>

\* lines 502-511; the id is `search_${Date.now()}`
newSavedSearch(name, query, options, clock) ==
  [id |-> <<"search", clock>>, name |-> name, query |-> query, options |-> options,
   filters |-> <<>>, created |-> clock, lastUsed |-> clock, useCount |-> 0]

\* line 523: this.savedSearches.get(searchId), for an id that is present
savedGet(saved, searchId) ==
  saved[CHOOSE i \in 1..Len(saved) : saved[i].id = searchId]

\* lines 550-555
RECURSIVE loadInto(_, _)
loadInto(saved, list) ==
  IF list = <<>> THEN saved ELSE loadInto(MapSet(saved, Head(list)), Tail(list))

loadSavedSearches(document) == loadInto(<<>>, document.savedSearches)

\* lines 528-529
stampUse(saved, searchId, clock) ==
  [i \in 1..Len(saved) |->
     IF saved[i].id = searchId
     THEN [saved[i] EXCEPT !.lastUsed = clock, !.useCount = @ + 1]
     ELSE saved[i]]

\* line 536: Map.prototype.delete
mapDelete(saved, searchId) ==
  LET Other(s) == s.id # searchId IN SelectSeq(saved, Other)

\* lines 574-580: queryCount, a Map in insertion order
RECURSIVE countInto(_, _)
countInto(counts, history) ==
  IF history = <<>> THEN counts
  ELSE LET q == Head(history).query
           hit == { i \in 1..Len(counts) : counts[i].query = q }
       IN  countInto(
             IF hit = {} THEN Append(counts, [query |-> q, count |-> 1])
             ELSE [i \in 1..Len(counts) |->
                     IF i \in hit THEN [counts[i] EXCEPT !.count = @ + 1] ELSE counts[i]],
             Tail(history))

RECURSIVE sumResultCounts(_)
sumResultCounts(history) ==
  IF history = <<>> THEN 0
  ELSE Head(history).resultCount + sumResultCounts(Tail(history))

\* lines 568-598; averageResults in units of 1/1000
getSearchAnalytics(history) ==
  [totalSearches |-> Len(history),
   topQueries |-> Take(StableSort(countInto(<<>>, history), [site |-> "topQueries"]), 10),
   averageResults |-> IF Len(history) > 0
                      THEN (sumResultCounts(history) * 1000) \div Len(history)
                      ELSE 0,
   searchTypes |-> [semantic |-> 0, keyword |-> 0, hybrid |-> 0, ai_enhanced |-> 0]]

\* what a synchronous read of the engine returns to its caller; a value that
\* is not a list is held as a list of one element
Value(op, value) == [kind |-> op, results |-> value, options |-> <<>>, cached |-> <<>>]

\* what executeSavedSearch raises for an unknown id (line 525)
NotFound == [kind |-> "notfound", results |-> <<>>, options |-> <<>>, cached |-> <<>>]

\* lines 501-515
saveSearch(name, query, options) ==
  /\ Len(MapSet(savedSearches, newSavedSearch(name, query, options, now))) <= MaxSaved
  /\ savedSearches' = MapSet(savedSearches, newSavedSearch(name, query, options, now))
  /\ settings' = saveSavedSearches(settings, savedSearches')
  /\ UNCHANGED <<now, searchCache, searchHistory, calls, ret, providerCalls, started,
                 optimizer, embeddings, voyageReady, vercelReady, arg, out>>

\* lines 517-520
getSavedSearches ==
  /\ ret' = Value("getSavedSearches", StableSort(savedSearches, [site |-> "getSavedSearches"]))
  /\ UNCHANGED <<now, searchCache, searchHistory, calls, providerCalls, started,
                 optimizer, embeddings, voyageReady, vercelReady, arg, out,
                 savedSearches, settings>>

\* executeSavedSearch that counts a replay only when the cache cannot serve it
executeSavedSearchCountsMisses(c, searchId) ==
  IF ~HasId(savedSearches, searchId)
  THEN /\ calls[c].pc = "idle"
       /\ ret' = NotFound
       /\ UNCHANGED <<now, searchCache, searchHistory, calls, providerCalls, started,
                      optimizer, embeddings, voyageReady, vercelReady, arg, out,
                      savedSearches, settings>>
  ELSE /\ savedSearches' =
            IF cacheLive(searchCache,
                         generateCacheKey(savedGet(savedSearches, searchId).options), now)
            THEN savedSearches
            ELSE stampUse(savedSearches, searchId, now)
       /\ settings' = saveSavedSearches(settings, savedSearches')
       /\ CacheLookup(c, savedGet(savedSearches, searchId).options)

\* lines 522-533: the lookup, the stamp and the save, then search up to its
\* first await
executeSavedSearch(c, searchId) ==
  IF ~HasId(savedSearches, searchId)
  THEN /\ calls[c].pc = "idle"
       /\ ret' = NotFound
       /\ UNCHANGED <<now, searchCache, searchHistory, calls, providerCalls, started,
                      optimizer, embeddings, voyageReady, vercelReady, arg, out,
                      savedSearches, settings>>
  ELSE /\ savedSearches' = stampUse(savedSearches, searchId, now)
       /\ settings' = saveSavedSearches(settings, savedSearches')
       /\ CacheLookup(c, savedGet(savedSearches, searchId).options)

\* deleteSavedSearch that empties the table
deleteSavedSearchClearsAll(searchId) ==
  /\ savedSearches' = <<>>
  /\ settings' = saveSavedSearches(settings, savedSearches')
  /\ UNCHANGED <<now, searchCache, searchHistory, calls, ret, providerCalls, started,
                 optimizer, embeddings, voyageReady, vercelReady, arg, out>>

\* lines 535-538
deleteSavedSearch(searchId) ==
  /\ savedSearches' = mapDelete(savedSearches, searchId)
  /\ settings' = saveSavedSearches(settings, savedSearches')
  /\ UNCHANGED <<now, searchCache, searchHistory, calls, ret, providerCalls, started,
                 optimizer, embeddings, voyageReady, vercelReady, arg, out>>

\* lines 540-542
getSearchHistory ==
  /\ ret' = Value("getSearchHistory", searchHistory)
  /\ UNCHANGED <<now, searchCache, searchHistory, calls, providerCalls, started,
                 optimizer, embeddings, voyageReady, vercelReady, arg, out,
                 savedSearches, settings>>

\* lines 544-547
clearSearchHistory ==
  /\ searchHistory' = <<>>
  /\ settings' = saveSearchHistory(settings, searchHistory')
  /\ UNCHANGED <<now, searchCache, calls, ret, providerCalls, started,
                 optimizer, embeddings, voyageReady, vercelReady, arg, out, savedSearches>>

\* the action that calls getSearchAnalytics
ReadAnalytics ==
  /\ ret' = Value("getSearchAnalytics", <<getSearchAnalytics(searchHistory)>>)
  /\ UNCHANGED <<now, searchCache, searchHistory, calls, providerCalls, started,
                 optimizer, embeddings, voyageReady, vercelReady, arg, out,
                 savedSearches, settings>>

\* lines 64-75 and main.ts:835-851: the plugin is loaded again and a new
\* engine is constructed from the settings document; its history and cache
\* start empty and its saved searches are those of the document
Construct ==
  /\ \A c \in Callers : calls[c].pc = "idle"
  /\ searchHistory' = <<>>
  /\ searchCache' = <<>>
  /\ savedSearches' = loadSavedSearches(settings)
  /\ ret' = NoReturn
  /\ UNCHANGED <<now, calls, providerCalls, started, optimizer, embeddings, voyageReady,
                 vercelReady, arg, out, settings>>

\* Date.now() moves on by one millisecond
Millisecond ==
  /\ now < MaxMillis
  /\ now' = now + 1
  /\ UNCHANGED <<searchCache, searchHistory, calls, ret, providerCalls, started,
                 optimizer, embeddings, voyageReady, vercelReady, arg, out,
                 savedSearches, settings>>

\* the options of the searches that are saved and replayed
ReplayOptions == mkOptions(Q_pay, "semantic", 3, FALSE, "relevance", "desc")

\* the options callers pass to search directly
SavedOptionSet == { mkOptions(Q_tax, "keyword", 1, FALSE, "relevance", "desc") }

\* the ids handed to executeSavedSearch and deleteSavedSearch; the last one
\* is never given to a saved search
SavedIds == { <<"search", t>> : t \in 0..(MaxMillis + 1) }

SavedInit ==
  /\ EngineInit
  /\ embeddings = TRUE
  /\ voyageReady = FALSE
  /\ vercelReady = FALSE
  /\ arg = <<>>
  /\ out = <<>>

SavedNext ==
  \/ \E options \in SavedOptionSet : SearchStart(1, options)
  \/ \E env \in EnvSet : StrategyDone(1, env)
  \/ saveSearch(N_a, ReplayOptions.query, ReplayOptions)
  \/ \E searchId \in SavedIds : executeSavedSearch(1, searchId)
  \/ \E searchId \in SavedIds : deleteSavedSearch(searchId)
  \/ getSavedSearches
  \/ getSearchHistory
  \/ clearSearchHistory
  \/ ReadAnalytics
  \/ Construct
  \/ Millisecond

SavedSpec == SavedInit /\ [][SavedNext]_vars

\* ------------------------------------------------------------------------
\* Properties of the saved searches, the history access, the analytics and
\* the construction (specification SavedSpec)
\* ------------------------------------------------------------------------

\* C14: when the strategy of a search raises, the call ends with the error
\* at its caller and without a result list, and neither that step nor the
\* cache lookup that began the search changes the cache, the history, the
\* saved-search table or the persisted settings.
C14_FailureLeavesNoTrace ==
  [][/\ \A c \in Callers, env \in EnvSet :
          ( /\ StrategyDone(c, env)
            /\ dispatch(calls[c].options[1], embeddings, vercelReady, env).kind = "throw" )
          => /\ ret'.kind = "error"
             /\ ret'.results = <<>>
             /\ calls'[c].pc = "idle"
             /\ searchCache' = searchCache
             /\ searchHistory' = searchHistory
             /\ savedSearches' = savedSearches
             /\ settings' = settings
     /\ \A c \in Callers, o \in SavedOptionSet :
          SearchStart(c, o)
          => /\ searchCache' = searchCache
             /\ searchHistory' = searchHistory
             /\ savedSearches' = savedSearches
             /\ settings' = settings]_vars

\* C14 witness: a search has just failed while the cache, the history and
\* the saved-search table all hold entries.
C14_Witness ==
  /\ ret.kind = "error"
  /\ searchCache # <<>>
  /\ searchHistory # <<>>
  /\ savedSearches # <<>>
  /\ settings.searchHistory = searchHistory
  /\ providerCalls.embed = 1
  /\ providerCalls.vector = 0

\* the position of the saved search with this id
SavedAt(saved, searchId) == CHOOSE i \in 1..Len(saved) : saved[i].id = searchId

\* C15: executeSavedSearch on an existing id adds exactly 1 to that saved
\* search's useCount and sets its lastUsed to the current instant, leaves
\* every other saved search and field as it was, and starts search with the
\* saved options (a live cache entry is returned at once, otherwise the
\* strategy is started); on an unknown id it raises 'Saved search not found'
\* and changes no saved search, cache entry or history entry and starts
\* nothing.
C15_SavedSearchReplay ==
  [][\A c \in Callers, searchId \in SavedIds :
       executeSavedSearch(c, searchId)
       => IF \E i \in 1..Len(savedSearches) : savedSearches[i].id = searchId
          THEN LET i == SavedAt(savedSearches, searchId)
                   o == savedSearches[i].options
                   key == generateCacheKey(o)
               IN  /\ Len(savedSearches') = Len(savedSearches)
                   /\ savedSearches'[i] = [savedSearches[i] EXCEPT
                                             !.useCount = savedSearches[i].useCount + 1,
                                             !.lastUsed = now]
                   /\ \A j \in 1..Len(savedSearches) :
                        j # i => savedSearches'[j] = savedSearches[j]
                   /\ settings'.savedSearches = savedSearches'
                   /\ searchCache' = searchCache
                   /\ searchHistory' = searchHistory
                   /\ IF key \in DOMAIN searchCache
                         /\ now - searchCache[key].timestamp < 5 * 60 * 1000
                      THEN /\ ret'.kind = "results"
                           /\ ret'.results = searchCache[key].results
                           /\ calls' = calls
                      ELSE /\ calls'[c].pc = "strategy"
                           /\ calls'[c].options = <<o>>
          ELSE /\ ret'.kind = "notfound"
               /\ savedSearches' = savedSearches
               /\ settings' = settings
               /\ searchCache' = searchCache
               /\ searchHistory' = searchHistory
               /\ calls' = calls
               /\ started' = started]_vars

\* C15 witness: a saved search was replayed twice, the second replay was
\* served from the cache, and its useCount is 2.
C15_Witness ==
  /\ started = 2
  /\ Len(searchHistory) = 1
  /\ ret.kind = "results"
  /\ ret.cached # <<>>
  /\ \E i \in 1..Len(savedSearches) :
       /\ savedSearches[i].useCount = 2
       /\ savedSearches[i].options = ret.options[1]
       /\ savedSearches[i].lastUsed > savedSearches[i].created

\* the entries of a table under the ids other than searchId, in order
OthersOf(saved, searchId) ==
  LET Other(s) == s.id # searchId IN SelectSeq(saved, Other)

ChangesSavedOrHistory ==
  \/ saveSearch(N_a, ReplayOptions.query, ReplayOptions)
  \/ \E searchId \in SavedIds :
       HasId(savedSearches, searchId) /\ executeSavedSearch(1, searchId)
  \/ \E searchId \in SavedIds : deleteSavedSearch(searchId)
  \/ \E env \in EnvSet :
       /\ StrategyDone(1, env)
       /\ dispatch(calls[1].options[1], embeddings, vercelReady, env).kind = "ok"
  \/ clearSearchHistory

\* C27: after every operation that changes the saved searches or the
\* history, settings.savedSearches holds exactly the values of the
\* saved-search table, in its order, and settings.searchHistory holds
\* exactly the in-memory history.
C27_PersistedMirrorsMemory ==
  [][ChangesSavedOrHistory
       => /\ settings'.savedSearches = savedSearches'
          /\ settings'.searchHistory = searchHistory']_vars

\* C28: every saveSearch call increases the number of saved searches by
\* exactly one and gives the new entry an id that no saved search had, with
\* useCount 0, also when two calls happen in the same millisecond.
C28_SaveSearchNeverReplaces ==
  [][saveSearch(N_a, ReplayOptions.query, ReplayOptions)
       => /\ Len(savedSearches') = Len(savedSearches) + 1
          /\ \E i \in 1..Len(savedSearches') :
               /\ ~HasId(savedSearches, savedSearches'[i].id)
               /\ savedSearches'[i].useCount = 0
          /\ \A i \in 1..Len(savedSearches) : savedSearches[i] \in Range(savedSearches')]_vars

\* C18: in what getSearchAnalytics returns the four per-type counts sum to
\* totalSearches.
C18_AnalyticsBreakdown ==
  ret.kind = "getSearchAnalytics"
    => LET analytics == ret.results[1]
       IN  analytics.searchTypes.semantic + analytics.searchTypes.keyword
             + analytics.searchTypes.hybrid + analytics.searchTypes.ai_enhanced
           = analytics.totalSearches

\* C19: an engine constructed from the settings document starts with the
\* saved searches and with the search history the document holds.
C19_PersistenceRoundTrip ==
  [][Construct
       => /\ Range(savedSearches') = Range(settings.savedSearches)
          /\ searchHistory' = settings.searchHistory]_vars

\* C17: under every interleaving of the two callers, a call that executed a
\* strategy and returns a list writes the cache entry of its own key, with
\* exactly the list it returns, and no other entry, and puts exactly one
\* entry (its query, the current instant, the length of the list it returns)
\* in front of the history, whose other entries stay as they were up to the
\* bound of 100; no other step of a search changes the history.
C17_InterleavingSafety ==
  [][/\ \A c \in Callers :
          (Completes(c) /\ ret'.kind = "results")
          => LET o == calls[c].options[1]
             IN  /\ ret'.options = <<o>>
                 /\ Stored(searchCache, generateCacheKey(o), ret'.results)
                 /\ searchHistory' = Recorded(searchHistory, o.query, Len(ret'.results))
                 /\ Len(searchHistory') <= 100
     /\ searchHistory' # searchHistory
          => \E c \in Callers : Completes(c) /\ ret'.kind = "results"]_vars

\* C17 witness: two calls with the same cache key were in progress together;
\* the first has returned and stored its list, the second, whose lookup had
\* found no entry, is still waiting for its strategy, and the history holds
\* the first call's entry.
C17_Witness ==
  /\ started = 2
  /\ ret.kind = "results"
  /\ ret.cached = <<>>
  /\ \E c \in Callers :
       /\ calls[c].pc = "strategy"
       /\ calls[c].options = ret.options
       /\ calls[c].cached = <<>>
  /\ generateCacheKey(ret.options[1]) \in DOMAIN searchCache
  /\ Len(searchHistory) = 1
  /\ searchHistory[1].resultCount = Len(ret.results)

\* another call with the cache key of these options is in progress
OtherInFlight(c, options) ==
  \E d \in Callers \ {c} :
    /\ calls[d].pc # "idle"
    /\ generateCacheKey(calls[d].options[1]) = generateCacheKey(options)

\* C29: there is no single-flight on concurrent misses.  A search that
\* starts without a live cache entry while another call with its cache key
\* is in progress starts its own execution and leaves the other call alone;
\* the strategy of a call that runs beside another call with its key makes
\* all the collaborator calls of a lone execution; and when such a call
\* returns its list it puts its own history entry in front and the cache
\* entry of the key becomes the list it returns, stamped with the current
\* instant, so the entry left is that of the call that completed last.
C29_NoSingleFlight ==
  [][\A c \in Callers :
       /\ \A o \in SearchOptionSet :
            ( /\ started' # started
              /\ OtherInFlight(c, o)
              /\ ~cacheLive(searchCache, generateCacheKey(o), now)
              /\ SearchStart(c, o) )
            => /\ calls'[c].pc = "strategy"
               /\ calls'[c].options = <<o>>
               /\ \A d \in Callers \ {c} : calls'[d] = calls[d]
               /\ ret' = ret
       /\ \A env \in EnvSet :
            ( /\ calls[c].pc = "strategy"
              /\ calls'[c].pc # "strategy"
              /\ OtherInFlight(c, calls[c].options[1])
              /\ dispatch(calls[c].options[1], embeddings, vercelReady, env).kind = "ok"
              /\ StrategyDone(c, env) )
            => LET t == calls[c].options[1].searchType
               IN  /\ providerCalls'.corpus - providerCalls.corpus
                        = IF t # "semantic" THEN Len(VaultFiles) ELSE 0
                   /\ providerCalls'.embed - providerCalls.embed
                        = IF t # "keyword" /\ embeddings THEN 1 ELSE 0
       /\ (Completes(c) /\ ret'.kind = "results")
            => LET o == calls[c].options[1]
               IN  /\ Len(searchHistory') = Len(searchHistory) + 1
                   /\ searchHistory'[1] = [query |-> o.query, timestamp |-> now,
                                           resultCount |-> Len(ret'.results)]
                   /\ searchCache'[generateCacheKey(o)]
                        = [results |-> ret'.results, timestamp |-> now]]_vars

\* C29 witness: two calls with the same cache key started while the cache
\* had no entry for it; both have executed the lexical strategy (the vault
\* was read twice), the first has returned, recorded and stored its list,
\* and the second is waiting for the rerank provider.
C29_Witness ==
  /\ started = 2
  /\ ret.kind = "results"
  /\ ret.cached = <<>>
  /\ ret.options[1].searchType = "keyword"
  /\ \E c \in Callers :
       /\ calls[c].pc = "rerank"
       /\ calls[c].options = ret.options
       /\ calls[c].cached = <<>>
  /\ providerCalls.corpus = 2 * Len(VaultFiles)
  /\ generateCacheKey(ret.options[1]) \in DOMAIN searchCache
  /\ Len(searchHistory) = 1

\* C29 witness of the end: both calls of the same query have returned, the
\* history holds an entry of each, and the cache entry is the list of the
\* one that returned last, which differs from the first one's.
C29_BothRecorded ==
  /\ started = 2
  /\ \A c \in Callers : calls[c].pc = "idle"
  /\ ret.kind = "results"
  /\ ret.cached = <<>>
  /\ Len(searchHistory) = 2
  /\ searchHistory[1].query = searchHistory[2].query
  /\ searchHistory[1].timestamp = searchHistory[2].timestamp
  /\ searchHistory[1].resultCount # searchHistory[2].resultCount
  /\ DOMAIN searchCache = {generateCacheKey(ret.options[1])}
  /\ searchCache[generateCacheKey(ret.options[1])].results = ret.results
  /\ Len(ret.results) = searchHistory[1].resultCount

\* ------------------------------------------------------------------------
\* analyzeResultsWithAI applied to bounded inputs (specification
\* AnalyzeSpec): the results are as deduplicateResults hands them over
\* inside aiEnhancedSearch, one per key, each carrying the finalScore of its
\* hybrid pass; replies holds one generateText outcome per result.
\* ------------------------------------------------------------------------

MaxAnalyzeLen == 2

\* what generateText may do for one result: reject, or answer a text that
\* parseFloat reads as 0.9, 0.5, 0 or NaN
AnalyzeReplies ==
  { [kind |-> "throw"], TextReply(<<900>>), TextReply(<<500>>), TextReply(<<0>>),
    TextReply(<<>>) }

UniqueKeys(list) ==
  \A i, j \in 1..Len(list) : dedupKey(list[i]) = dedupKey(list[j]) => i = j

AnalyzeInputs ==
  { [results |-> l, replies |-> r, applied |-> FALSE] :
      l \in { m \in ListsUpTo(DedupShapes, MaxAnalyzeLen) : UniqueKeys(m) },
      r \in ListsUpTo(AnalyzeReplies, MaxAnalyzeLen) }

AnalyzeInit ==
  /\ EngineIdle
  /\ arg \in { a \in AnalyzeInputs : Len(a.replies) = Len(a.results) }
  /\ out = <<>>

ApplyAnalyze ==
  /\ ~arg.applied
  /\ arg' = [arg EXCEPT !.applied = TRUE]
  /\ out' = analyzeResultsWithAI(arg.results, TRUE, arg.replies)
  /\ EngineUnchanged

AnalyzeNext == ApplyAnalyze

AnalyzeSpec == AnalyzeInit /\ [][AnalyzeNext]_vars

\* the position in the output of the result that has the key of r
AnalyzedAt(r) == CHOOSE k \in 1..Len(out) : KeyOf(out[k]) = KeyOf(r)

\* the output result that has the key of the input result r
Analyzed(r) == out[AnalyzedAt(r)]

\* C21: for every result passed to the AI-relevance stage, a reply that
\* parses as a number a in [0,1], 0 included, gives the result the
\* finalScore score x 0.5 + a x 0.5; a reply that does not parse as a number
\* gives it its prior score as finalScore; and the output is sorted by
\* finalScore descending.
C21_AIRelevanceBlending ==
  arg.applied =>
    /\ Len(out) = Len(arg.results)
    /\ \A i \in 1..Len(arg.results) :
         LET r == arg.results[i]
             reply == arg.replies[i]
         IN  /\ (reply.kind = "text" /\ reply.value # <<>> /\ reply.value[1] \in 0..1000)
                  => Analyzed(r).finalScore
                       = <<Weighted(r.score, 5) + Weighted(reply.value[1], 5)>>
             /\ (reply.kind = "text" /\ reply.value = <<>>)
                  => Analyzed(r).finalScore = <<r.score>>
    /\ \A i, k \in 1..Len(out) :
         (i < k /\ out[i].finalScore # <<>> /\ out[k].finalScore # <<>>)
           => out[i].finalScore[1] >= out[k].finalScore[1]

\* the result i of the batch is one whose generateText call failed
FailedAt(i) == arg.replies[i].kind = "throw"

\* the value the stage orders result i of the batch by: when it is scored from
\* its reply, its new finalScore; when its call failed, its prior score
StageScore(i) ==
  IF FailedAt(i) THEN arg.results[i].score ELSE Analyzed(arg.results[i]).finalScore[1]

\* C22: when the text-generation call fails for some results of the batch,
\* the stage still returns every input result exactly once, every other
\* result is scored from its own reply, and each failed result is ordered by
\* its prior score: the output is descending in new finalScore for scored
\* results and prior score for failed ones.
C22_PerItemFailureIsolated ==
  (arg.applied /\ \E i \in 1..Len(arg.results) : FailedAt(i)) =>
    /\ Len(out) = Len(arg.results)
    /\ { KeyOf(out[k]) : k \in 1..Len(out) }
         = { KeyOf(arg.results[i]) : i \in 1..Len(arg.results) }
    /\ \A i \in 1..Len(arg.results) :
         ~FailedAt(i) =>
           \E a \in {arg.results[i].score} \cup Range(arg.replies[i].value) :
             Analyzed(arg.results[i]).finalScore
               = <<Weighted(arg.results[i].score, 5) + Weighted(a, 5)>>
    /\ \A i, j \in 1..Len(arg.results) :
         AnalyzedAt(arg.results[i]) < AnalyzedAt(arg.results[j])
           => StageScore(i) >= StageScore(j)

\* ------------------------------------------------------------------------
\* keywordSearch applied to bounded inputs (specification KeywordSpec): a
\* query and the set of vault files whose read or match throws.
\* ------------------------------------------------------------------------

Q_none == <<"z">>

KeywordQueries ==
  { Q_pay, Q_inv_pay, Q_tax, Q_none, <<>>, <<"4", "2">>, <<"T", "a", "x">>,
    <<"p", "a", "y", " ", "t", "a", "x">> }

KeywordInit ==
  /\ EngineIdle
  /\ arg \in { [options |-> mkOptions(q, "keyword", 3, FALSE, "relevance", "desc"),
                unreadable |-> u, applied |-> FALSE] :
               q \in KeywordQueries, u \in SUBSET (1..Len(VaultFiles)) }
  /\ out = <<>>

ApplyKeyword ==
  /\ ~arg.applied
  /\ arg' = [arg EXCEPT !.applied = TRUE]
  /\ out' = keywordSearch(arg.options, arg.unreadable)
  /\ EngineUnchanged

KeywordNext == ApplyKeyword

KeywordSpec == KeywordInit /\ [][KeywordNext]_vars

\* the word occurs in the text; the empty word occurs in every text
Occurs(word, text) ==
  \E k \in 1..(Len(text) + 1) :
    /\ k + Len(word) - 1 <= Len(text)
    /\ SubSeq(text, k, k + Len(word) - 1) = word

\* the vault files in which a word of the query occurs, by position
Matching(query) ==
  { i \in 1..Len(VaultFiles) :
      \E w \in Range(SplitWhitespace(toLowerCase(query))) :
        Occurs(w, toLowerCase(VaultFiles[i].content)) }

\* C26: when reading or matching some vault files fails during
\* keywordSearch, those files are skipped and the search returns, once each,
\* the results of every other file in which a word of the query occurs, the
\* same results as when no file fails, sorted by score descending; every
\* returned result has a score above 0.
C26_LexicalPerDocumentIsolation ==
  arg.applied =>
    /\ IdsOf(out) = { <<"keyword", VaultFiles[i].path>> :
                        i \in Matching(arg.options.query) \ arg.unreadable }
    /\ UniqueIds(out)
    /\ \A i \in 1..Len(out) :
         /\ out[i].score > 0
         /\ out[i] \in Range(keywordSearch(arg.options, {}))
    /\ \A i, k \in 1..Len(out) : i < k => out[i].score >= out[k].score

\* C26 witness: the query 'pay' occurs in all three files and the read of the
\* second, the best match, fails: the other two are returned.
C26_Witness ==
  /\ arg.applied
  /\ arg.options.query = Q_pay
  /\ arg.unreadable = {2}
  /\ Len(out) = 2
  /\ IdsOf(out) = { <<"keyword", VaultFiles[1].path>>, <<"keyword", VaultFiles[3].path>> }
  /\ \A i \in 1..Len(out) : out[i].score = 1000

\* ------------------------------------------------------------------------
\* The rerank gate of search (specification RerankGateSpec): searches that
\* ask for reranking or not, whose strategy finds something or nothing, on
\* an engine whose rerank provider is ready or not.
\* ------------------------------------------------------------------------

RerankGateOptionSet ==
  { mkOptions(q, "keyword", 3, r, "relevance", "desc") :
      q \in {Q_pay, Q_none}, r \in BOOLEAN }
  \cup { mkOptions(Q_pay, "hybrid", 3, TRUE, "relevance", "desc") }

RerankGateInit ==
  /\ EngineInit
  /\ embeddings = TRUE
  /\ voyageReady \in BOOLEAN
  /\ vercelReady = FALSE
  /\ arg = <<>>
  /\ out = <<>>

RerankGateNext ==
  \/ \E c \in Callers, options \in RerankGateOptionSet : SearchStart(c, options)
  \/ \E c \in Callers : StrategyDone(c, NoEnv)
  \/ \E c \in Callers, reply \in RerankReplySet : RerankDone(c, reply)

RerankGateSpec == RerankGateInit /\ [][RerankGateNext]_vars

\* C25: when options.useRerank is false, or the rerank provider is not
\* ready, or the strategy returned an empty list, the search makes no rerank
\* provider call and finishes with the strategy's output as it is (filtered,
\* sorted and cut as usual): no rerankScore is set and every finalScore is
\* the strategy's.  A rerank provider call is only ever made for a search
\* that asked for it, with the provider ready and a non-empty list.
C25_RerankSkipped ==
  [][/\ \A c \in Callers :
          LET o == calls[c].options[1]
              outcome == dispatch(o, embeddings, vercelReady, NoEnv)
          IN  ( /\ StrategyDone(c, NoEnv)
                /\ outcome.kind = "ok"
                /\ (~o.useRerank \/ ~voyageReady \/ outcome.results = <<>>) )
              => /\ providerCalls'.rerank = providerCalls.rerank
                 /\ calls'[c].pc = "idle"
                 /\ ret'.kind = "results"
                 /\ ret'.results = postProcess(outcome.results, o)
                 /\ \A i \in 1..Len(ret'.results) :
                      /\ ret'.results[i].rerankScore = <<>>
                      /\ ret'.results[i] \in Range(outcome.results)
     /\ providerCalls'.rerank # providerCalls.rerank
          => \E c \in Callers :
               /\ calls[c].pc = "rerank"
               /\ calls[c].options[1].useRerank
               /\ voyageReady
               /\ calls[c].results # <<>>]_vars

\* C25 witness: on an engine whose rerank provider is not ready, a search
\* that asked for reranking returned its strategy's results, without a
\* rerankScore, and no rerank provider call was made.
C25_Witness ==
  /\ ~voyageReady
  /\ ret.kind = "results"
  /\ ret.cached = <<>>
  /\ ret.options[1].useRerank
  /\ ret.results # <<>>
  /\ \A i \in 1..Len(ret.results) : ret.results[i].rerankScore = <<>>
  /\ providerCalls.rerank = 0
  /\ providerCalls.corpus > 0

\* C25 witness of the empty list: with the rerank provider ready, a search
\* that asked for reranking and found nothing returned the empty list
\* without a rerank provider call.
C25_EmptyListReached ==
  /\ voyageReady
  /\ started = 1
  /\ ret.kind = "results"
  /\ ret.cached = <<>>
  /\ ret.options[1].useRerank
  /\ ret.results = <<>>
  /\ providerCalls.rerank = 0
  /\ Len(searchHistory) = 1

\* ------------------------------------------------------------------------
\* The batch processor of PerformanceOptimizer (performance.ts:18-29 and
\* 79-108), with the specification BatchSpec: jobs are added, the interval
\* timer of startBatchProcessor fires, and processBatch calls settle.  A job
\* id, `${type}_${Date.now()}_${random}` in the code, is the number of the
\* addToBatch call that made it.
\* ------------------------------------------------------------------------

\* performance.ts:23
BATCH_SIZE == 10

\* the addToBatch calls of one run
MaxJobs == 11

\* the type and priority of the jobs callers add
JobKinds == { [type |-> "sync", priority |-> 1], [type |-> "embedding", priority |-> 2] }

\* lines 80-91: the job gets its id and timestamp, is pushed, and the queue
\* is sorted by priority descending
addToBatch(job) ==
  /\ Len(batchQueue) + Cardinality(handed) < MaxJobs
  /\ batchQueue' =
       StableSort(Append(batchQueue,
                         [id |-> Len(batchQueue) + Cardinality(handed) + 1,
                          type |-> job.type, priority |-> job.priority,
                          timestamp |-> now]),
                  [site |-> "addToBatch"])
  /\ UNCHANGED <<isProcessing, running, handed>>
  /\ UNCHANGED <<now, searchCache, searchHistory, calls, ret, providerCalls, started,
                 embeddings, voyageReady, vercelReady, arg, out, savedSearches, settings>>

\* TimerTick without the isProcessing check of line 95
TimerTickUnguarded ==
  /\ IF Len(batchQueue) = 0
     THEN UNCHANGED <<batchQueue, isProcessing, running, handed>>
     ELSE /\ isProcessing' = TRUE
          /\ running' = Append(running, Take(batchQueue, BATCH_SIZE))
          /\ batchQueue' = SubSeq(batchQueue, Min(Len(batchQueue), BATCH_SIZE) + 1,
                                  Len(batchQueue))
          /\ handed' = handed \cup { batchQueue[i].id :
                                      i \in 1..Min(Len(batchQueue), BATCH_SIZE) }
  /\ UNCHANGED <<now, searchCache, searchHistory, calls, ret, providerCalls, started,
                 embeddings, voyageReady, vercelReady, arg, out, savedSearches, settings>>

\* lines 94-100: the interval callback up to its await; splice(0, BATCH_SIZE)
\* takes the batch off the front of the queue
TimerTick ==
  /\ IF isProcessing \/ Len(batchQueue) = 0
     THEN UNCHANGED <<batchQueue, isProcessing, running, handed>>
     ELSE /\ isProcessing' = TRUE
          /\ running' = Append(running, Take(batchQueue, BATCH_SIZE))
          /\ batchQueue' = SubSeq(batchQueue, Min(Len(batchQueue), BATCH_SIZE) + 1,
                                  Len(batchQueue))
          /\ handed' = handed \cup { batchQueue[i].id :
                                      i \in 1..Min(Len(batchQueue), BATCH_SIZE) }
  /\ UNCHANGED <<now, searchCache, searchHistory, calls, ret, providerCalls, started,
                 embeddings, voyageReady, vercelReady, arg, out, savedSearches, settings>>

\* lines 100-106: the processBatch call of the batch at position k resolves
\* (ok) or rejects; the catch logs and the finally resets the flag
BatchSettles(k, ok) ==
  /\ k \in 1..Len(running)
  /\ running' = SubSeq(running, 1, k - 1) \o SubSeq(running, k + 1, Len(running))
  /\ isProcessing' = FALSE
  /\ UNCHANGED <<batchQueue, handed>>
  /\ UNCHANGED <<now, searchCache, searchHistory, calls, ret, providerCalls, started,
                 embeddings, voyageReady, vercelReady, arg, out, savedSearches, settings>>

BatchInit ==
  /\ EngineIdle
  /\ arg = <<>>
  /\ out = <<>>

BatchNext ==
  \/ \E job \in JobKinds : addToBatch(job)
  \/ TimerTick
  \/ \E k \in 1..2, ok \in BOOLEAN : BatchSettles(k, ok)

BatchSpec == BatchInit /\ [][BatchNext]_vars

\* C30: PerformanceOptimizer processes at most one batch at any time, and
\* isProcessing is true exactly while a batch is in progress; no job is in
\* two places (in the queue and a batch, or twice in either) and the queue
\* is ordered by priority descending.  A timer tick that fires while a batch
\* is in progress removes no job and starts nothing; a tick that starts a
\* batch takes at most 10 jobs, the front of the queue, and leaves the rest;
\* every job it takes was never handed to processing before; and when a
\* batch ends, with or without a failure, isProcessing is false.
C30_BatchMutualExclusion ==
  /\ [](/\ Len(running) <= 1
        /\ isProcessing <=> running # <<>>
        /\ \A i, k \in 1..Len(batchQueue) :
             /\ i < k => batchQueue[i].priority >= batchQueue[k].priority
             /\ batchQueue[i].id = batchQueue[k].id => i = k
        /\ \A i \in 1..Len(batchQueue) : batchQueue[i].id \notin handed)
  /\ [][/\ (TimerTick /\ isProcessing) =>
             /\ batchQueue' = batchQueue
             /\ running' = running
             /\ handed' = handed
        /\ (TimerTick /\ running' # running) =>
             /\ running = <<>>
             /\ Len(running') = 1
             /\ Len(running'[1]) \in 1..10
             /\ batchQueue = running'[1] \o batchQueue'
             /\ \A i \in 1..Len(running'[1]) : running'[1][i].id \notin handed
             /\ isProcessing'
        /\ \A k \in 1..2, ok \in BOOLEAN :
             BatchSettles(k, ok) => (~isProcessing' /\ running' = <<>>)]_vars

\* C30 witness: eleven jobs were queued when the timer fired: a batch of
\* exactly 10 jobs is in progress, the job left in the queue has the lowest
\* priority, and isProcessing is set.
C30_Witness ==
  /\ isProcessing
  /\ Len(running) = 1
  /\ Len(running[1]) = 10
  /\ Len(batchQueue) = 1
  /\ Cardinality(handed) = 10
  /\ running[1][1].priority = 2
  /\ batchQueue[1].priority = 1
  /\ batchQueue[1].id < 11

====
